---- MODULE Spec2Model ----
(***************************************************************************)
(* Model of souzu: the per-device MQTT connection (souzu/bambu/mqtt.py),   *)
(* its in-memory subscriber queues, the merge of partial status reports    *)
(* into the cached report, the cache file, the task group that runs every  *)
(* device's tasks (souzu/commands/monitor.py), and the print-job state     *)
(* machine of one device (souzu/job_tracking.py).                          *)
(***************************************************************************)
EXTENDS Integers, Sequences, FiniteSets, TLC

(***************************************************************************)
(* Bounds of the model                                                     *)
(***************************************************************************)
\* inbound MQTT messages handled by one connection
MaxMsgs == 2
\* transport errors (MqttError) raised to one connection
MaxErrors == 2
\* steps (messages, transport errors) each device takes under the task group
MaxSteps == 2
\* reports one job-tracking task takes from its subscription
MaxReports == 3

(***************************************************************************)
(* Optional values: None is the empty tuple, a present value a 1-tuple     *)
(***************************************************************************)
None == <<>>

Some(x) == <<x>>

(***************************************************************************)
(* JSON values, as json.loads returns them                                 *)
(***************************************************************************)
JNull == [t |-> "null"]

JStr(s) == [t |-> "str", s |-> s]

JInt(n) == [t |-> "int", n |-> n]

\* a JSON number with a fraction, kept in tenths: JFloat(605) is 60.5
JFloat(x10) == [t |-> "float", x10 |-> x10]

JList(l) == [t |-> "list", l |-> l]

JDict(d) == [t |-> "dict", d |-> d]

\* the value a failed merge strategy leaves behind (KeyError / TypeError)
JError == [t |-> "error"]

EmptyDict == [k \in {} |-> JNull]

\* range of a sequence
Range(s) == {s[i] : i \in DOMAIN s}

(***************************************************************************)
(* BambuStatusReport and its (un)structuring                               *)
(***************************************************************************)
\* BambuLightReport()
Light(node, mode) == [node |-> node, mode |-> mode]

\* BambuAmsDetails(), BambuAmsSummary(): the filament-bay summary
AmsDetails(id, humidity) == [id |-> id, humidity |-> humidity]

AmsSummary(ams, tray_now) == [ams |-> ams, tray_now |-> tray_now]

\* BambuStatusReport(gcode_state, mc_remaining_time, lights_report,
\* bed_temper, ams)
Report(gs, rt, lights, bed, ams) ==
  [gcode_state |-> gs, mc_remaining_time |-> rt, lights_report |-> lights,
   bed_temper |-> bed, ams |-> ams]

\* BambuStatusReport(): every field absent, list fields empty
EmptyReport == Report(None, None, <<>>, None, None)

\* cattrs unstructure of an optional str / int: None becomes JSON null
UnStr(o) == IF o = None THEN JNull ELSE JStr(o[1])

UnInt(o) == IF o = None THEN JNull ELSE JInt(o[1])

UnLight(l) == JDict([node |-> UnStr(l.node), mode |-> UnStr(l.mode)])

UnAmsDetails(d) == JDict([id |-> UnInt(d.id), humidity |-> UnInt(d.humidity)])

UnAms(o) ==
  IF o = None THEN JNull
  ELSE JDict([ams |-> JList([i \in 1..Len(o[1].ams) |-> UnAmsDetails(o[1].ams[i])]),
              tray_now |-> UnInt(o[1].tray_now)])

\* unstructure(BambuStatusReport): a dict holding every field
UnstructureReport(r) ==
  JDict([gcode_state |-> UnStr(r.gcode_state),
         mc_remaining_time |-> UnInt(r.mc_remaining_time),
         lights_report |->
           JList([i \in 1..Len(r.lights_report) |-> UnLight(r.lights_report[i])]),
         bed_temper |-> UnInt(r.bed_temper),
         ams |-> UnAms(r.ams)])

\* variant: unstructure(self._cache.print), without the "or {}"
UnstructureOptNull(o) == IF o = None THEN JNull ELSE UnstructureReport(o[1])

\* unstructure(self._cache.print) or {}
UnstructureOpt(o) == IF o = None THEN JDict(EmptyDict) ELSE UnstructureReport(o[1])

(***************************************************************************)
(* _MERGER: deepmerge with the custom list strategy                        *)
(***************************************************************************)
\* equality of two JSON values (dict keys compare by type and value)
JEq(a, b) == a.t = b.t /\ a = b

\* item["node"] can be evaluated and used as a dict key
HasNodeKey(item) ==
  /\ item.t = "dict"
  /\ "node" \in DOMAIN item.d
  /\ item.d["node"].t \in {"null", "str", "int"}

\* variant: the item is always added at the end
KeyedPutAppends(items, item) ==
  Append(items, item)

\* items[item["node"]] = item on an insertion-ordered dict, kept as the
\* sequence of its values: an existing key keeps its position
KeyedPut(items, item) ==
  IF \E i \in DOMAIN items : JEq(items[i].d["node"], item.d["node"])
  THEN [i \in DOMAIN items |->
          IF JEq(items[i].d["node"], item.d["node"]) THEN item ELSE items[i]]
  ELSE Append(items, item)

RECURSIVE KeyedFold(_, _, _)
KeyedFold(items, lst, i) ==
  IF i > Len(lst) THEN items
  ELSE KeyedFold(KeyedPut(items, lst[i]), lst, i + 1)

\* variant: a plain list is always replaced, by an empty list too
ListMergeReplaces(path, base, nxt) ==
  IF path = <<"print", "lights_report">>
  THEN IF \A it \in Range(base.l) \cup Range(nxt.l) : HasNodeKey(it)
       THEN JList(KeyedFold(KeyedFold(<<>>, base.l, 1), nxt.l, 1))
       ELSE JError
  ELSE nxt

\* _custom_list_merge, called when base and nxt are both lists
CustomListMerge(path, base, nxt) ==
  IF path = <<"print", "lights_report">>
  THEN IF \A it \in Range(base.l) \cup Range(nxt.l) : HasNodeKey(it)
       THEN JList(KeyedFold(KeyedFold(<<>>, base.l, 1), nxt.l, 1))
       ELSE JError
  ELSE IF nxt.l # <<>> THEN nxt ELSE base

\* Merger.merge(base, nxt): lists by _custom_list_merge, dicts key by key,
\* everything else (and every type conflict) overridden by nxt
RECURSIVE MergeValue(_, _, _)
\* variant: a mapping inside "print" is replaced by the mapping of the patch
MergeValueReplacesNested(path, base, nxt) ==
  IF base.t = "list" /\ nxt.t = "list" THEN CustomListMerge(path, base, nxt)
  ELSE IF base.t = "dict" /\ nxt.t = "dict" /\ Len(path) < 2
  THEN JDict([k \in DOMAIN base.d \cup DOMAIN nxt.d |->
                IF k \notin DOMAIN nxt.d THEN base.d[k]
                ELSE IF k \notin DOMAIN base.d THEN nxt.d[k]
                ELSE MergeValue(Append(path, k), base.d[k], nxt.d[k])])
  ELSE nxt

MergeValue(path, base, nxt) ==
  IF base.t = "list" /\ nxt.t = "list" THEN CustomListMerge(path, base, nxt)
  ELSE IF base.t = "dict" /\ nxt.t = "dict"
  THEN JDict([k \in DOMAIN base.d \cup DOMAIN nxt.d |->
                IF k \notin DOMAIN nxt.d THEN base.d[k]
                ELSE IF k \notin DOMAIN base.d THEN nxt.d[k]
                ELSE MergeValue(Append(path, k), base.d[k], nxt.d[k])])
  ELSE nxt

(***************************************************************************)
(* structure(merged, _BambuWrapper); a failure is None                     *)
(***************************************************************************)
\* str | None field: cattrs calls str() on a present value
StructStr(v) ==
  CASE v.t = "null" -> Some(None)
    [] v.t = "str" -> Some(Some(v.s))
    [] v.t = "int" -> Some(Some(ToString(v.n)))

\* variant: a value that is not an integer is read as absent
LenientInt(v) ==
  CASE v.t = "int" -> Some(Some(v.n))
    [] v.t \in {"null", "str", "list", "dict", "error"} -> Some(None)

\* int | None field: int() of a non-numeric string raises ValueError (the
\* strings of this model are words, never numerals)
StructInt(v) ==
  CASE v.t = "null" -> Some(None)
    [] v.t = "int" -> Some(Some(v.n))
    [] v.t \in {"str", "list", "dict", "error"} -> None

Field(d, k) == IF k \in DOMAIN d THEN d[k] ELSE JNull

\* BambuLightReport from a mapping
StructLight(v) ==
  IF v.t # "dict" THEN None
  ELSE Some(Light(StructStr(Field(v.d, "node"))[1],
                  StructStr(Field(v.d, "mode"))[1]))

\* list[BambuLightReport]: the value must be a list of mappings
StructLights(v) ==
  IF v.t # "list" THEN None
  ELSE IF \E i \in DOMAIN v.l : StructLight(v.l[i]) = None THEN None
  ELSE Some([i \in DOMAIN v.l |-> StructLight(v.l[i])[1]])

\* round(value) of a float given in tenths: to the nearest integer, a tie
\* to the even neighbour
round(x10) ==
  LET q == x10 \div 10
      r == x10 % 10
  IN IF r < 5 THEN q
     ELSE IF r > 5 THEN q + 1
     ELSE IF q % 2 = 0 THEN q ELSE q + 1

\* _round_int on the value of a temperature field
round_int(v) ==
  CASE v.t = "null" -> Some(None)
    [] v.t = "int" -> Some(Some(v.n))
    [] v.t = "float" -> Some(Some(round(v.x10)))
    [] v.t \in {"str", "list", "dict", "error"} -> None

\* BambuAmsDetails from a mapping
StructAmsDetails(v) ==
  IF v.t # "dict" THEN None
  ELSE LET id == StructInt(Field(v.d, "id"))
           hu == StructInt(Field(v.d, "humidity"))
       IN IF id = None \/ hu = None THEN None
          ELSE Some(AmsDetails(id[1], hu[1]))

\* BambuAmsSummary | None from the merged value
StructAms(v) ==
  IF v.t = "null" THEN Some(None)
  ELSE IF v.t # "dict" THEN None
  ELSE LET lv == IF "ams" \in DOMAIN v.d THEN v.d["ams"] ELSE JList(<<>>)
           tn == StructInt(Field(v.d, "tray_now"))
       IN IF lv.t # "list" \/ tn = None THEN None
          ELSE IF \E i \in DOMAIN lv.l : StructAmsDetails(lv.l[i]) = None
          THEN None
          ELSE Some(Some(AmsSummary(
                 [i \in DOMAIN lv.l |-> StructAmsDetails(lv.l[i])[1]], tn[1])))

\* BambuStatusReport from the merged "print" value; missing keys take the
\* attrs defaults, unknown keys are ignored
StructReport(v) ==
  IF v.t # "dict" THEN None
  ELSE LET gs == StructStr(Field(v.d, "gcode_state"))
           rt == StructInt(Field(v.d, "mc_remaining_time"))
           lr == IF "lights_report" \in DOMAIN v.d
                 THEN StructLights(v.d["lights_report"]) ELSE Some(<<>>)
           bt == round_int(Field(v.d, "bed_temper"))
           am == StructAms(Field(v.d, "ams"))
       IN IF rt = None \/ lr = None \/ bt = None \/ am = None THEN None
          ELSE Some(Report(gs[1], rt[1], lr[1], bt[1], am[1]))

\* _BambuWrapper: the mapping must carry the required key "print"
StructWrapper(v) ==
  IF v.t # "dict" THEN None
  ELSE IF "print" \notin DOMAIN v.d THEN None
  ELSE StructReport(v.d["print"])

(***************************************************************************)
(* MQTT payloads and BambuMqttConnection._parse_payload                    *)
(***************************************************************************)
\* a payload: its Python type, whether its bytes are valid UTF-8, and the
\* value json.loads gives for its text (None when the text is not JSON)
Payload(type, utf8, json) == [type |-> type, utf8 |-> utf8, json |-> json]

\* payload.decode() / isinstance checks: the text can be obtained
Decodes(p) == (p.type = "bytes" /\ p.utf8) \/ p.type = "str"

\* _parse_payload: the merged report, or None when anything raised
\* variant: the patch is merged onto an empty mapping
ParsePayloadNoCache(cachePrint, p) ==
  IF ~Decodes(p) THEN None
  ELSE IF p.json = None THEN None
  ELSE StructWrapper(
         MergeValue(<<>>, JDict([print |-> JDict(EmptyDict)]), p.json[1]))

\* _parse_payload: the decoded patch merged onto the unstructured cached
\* report and structured; None when any step raises
ParsePayload(cachePrint, p) ==
  IF ~Decodes(p) THEN None
  ELSE IF p.json = None THEN None
  ELSE StructWrapper(
         MergeValue(<<>>, JDict([print |-> UnstructureOpt(cachePrint)]), p.json[1]))

(***************************************************************************)
(* _Cache and the cache file                                               *)
(***************************************************************************)
\* _Cache()
EmptyCache == [print |-> None, last_update |-> None, last_full_update |-> None]

\* variant: a datetime is written as a number of seconds
UnTimeAsSeconds(o) == IF o = None THEN JNull ELSE JInt(o[1])

\* SERIALIZER hooks for datetime: isoformat() text of instant n
UnTime(o) == IF o = None THEN JNull ELSE [t |-> "iso", n |-> o[1]]

StructTime(v) ==
  CASE v.t = "null" -> Some(None)
    [] v.t = "iso" -> Some(Some(v.n))
    [] v.t \in {"str", "int", "list", "dict"} -> None

\* SERIALIZER.unstructure(self._cache), the content json.dumps writes
UnstructureCache(c) ==
  JDict([print |-> IF c.print = None THEN JNull ELSE UnstructureReport(c.print[1]),
         last_update |-> UnTime(c.last_update),
         last_full_update |-> UnTime(c.last_full_update)])

\* SERIALIZER.structure(cache_str, _Cache); None when it raises
StructCache(v) ==
  IF v.t # "dict" THEN None
  ELSE LET pv == Field(v.d, "print")
           pr == IF pv.t = "null" THEN Some(None)
                 ELSE IF StructReport(pv) = None THEN None
                 ELSE Some(StructReport(pv))
           lu == StructTime(Field(v.d, "last_update"))
           lf == StructTime(Field(v.d, "last_full_update"))
       IN IF pr = None \/ lu = None \/ lf = None THEN None
          ELSE Some([print |-> pr[1], last_update |-> lu[1],
                     last_full_update |-> lf[1]])

(***************************************************************************)
(* Inputs of the connection model                                          *)
(***************************************************************************)
\* the two subscribers every device gets: log_reports, monitor_printer_status
Subs == {"logger", "tracker"}

PatchRunning ==
  JDict([print |-> JDict([gcode_state |-> JStr("RUNNING"),
                          mc_remaining_time |-> JInt(120)])])

PatchLight ==
  JDict([print |-> JDict([lights_report |->
           JList(<<JDict([node |-> JStr("chamber_light"), mode |-> JStr("on")])>>)])])

PatchBadSchema ==
  JDict([print |-> JDict([mc_remaining_time |-> JStr("soon")])])

\* the messages the broker may deliver
Payloads ==
  { Payload("bytes", TRUE, Some(PatchRunning)),
    Payload("bytes", TRUE, Some(PatchLight)),
    Payload("bytes", TRUE, Some(PatchBadSchema)),
    Payload("bytes", TRUE, None),
    Payload("bytes", FALSE, None) }

\* the payloads that cannot be decoded, parsed as JSON or structured
BadPayload(p) ==
  \/ p.type = "bytes" /\ ~p.utf8
  \/ p.type \notin {"bytes", "str"}
  \/ p.json = None
  \/ p.json = Some(PatchBadSchema)

\* a cache saved by an earlier session
SavedCache ==
  [print |-> Some(Report(Some("PAUSE"), Some(30),
                        <<Light(Some("work_light"), Some("off"))>>, None, None)),
   last_update |-> Some(0), last_full_update |-> None]

\* the possible contents of the cache file before the connection starts
\* a cache file whose content cannot be loaded
CorruptCacheFile == Some(JStr("corrupt"))

CacheFiles == {None, Some(UnstructureCache(SavedCache)), CorruptCacheFile}

(***************************************************************************)
(* State of one BambuMqttConnection and of its subscribers                 *)
(***************************************************************************)
VARIABLES
  scope,         \* the connection's async-with scope: new, entered, exiting, exited,
                 \* enter_raised
  consume_task,  \* position of _consume_messages (none while _consume_task is None)
  raised,        \* the last exception raised inside the consume task, if any
  lastBad,       \* history: the last message received was malformed
  cache,         \* self._cache
  cache_file,    \* content of the cache file (None while it does not exist)
  serialized,    \* the text built in the finally block of _with_cache
  writes,        \* number of writes of the cache file
  queues,        \* self._queues: the registered queues, by subscriber
  pending,       \* the items waiting in each subscriber's queue
  subPc,         \* each subscriber: idle, subscribed, closed
  clock,         \* datetime.now(UTC)
  nMsgs,         \* messages received
  nErrors,       \* exceptions raised to the consume loop
  nSleeps,       \* sleep(MQTT_ERROR_RECONNECT_DELAY) calls
  nClients,      \* Client(...) objects built
  loaded,        \* history: the cache as loaded by __aenter__
  patches,       \* history: the payloads that were parsed, in arrival order
  published,     \* history: the reports pushed to the queues, in order
  regAt,         \* history: number of reports published when s registered
  unregAt,       \* history: number of reports published when s unregistered
  delivered,     \* history: the publish numbers placed in the queue of s
  seen           \* history: the items s took out of its queue

connVars ==
  <<scope, consume_task, raised, lastBad, cache, cache_file, serialized, writes, queues,
    pending, subPc, clock, nMsgs, nErrors, nSleeps, nClients, loaded, patches,
    published, regAt, unregAt, delivered, seen>>

(***************************************************************************)
(* State of inner_loop: the task group shared by every device's tasks      *)
(***************************************************************************)
VARIABLES
  device_queue,  \* queue: the discovered devices not yet set up
  found_ids,     \* BambuDiscovery.found_ids
  tasks,         \* the state of each device's tasks in the task group
  steps,         \* messages received / reports handled by each task
  tg,            \* the TaskGroup: active, aborting
  inner,         \* inner_loop: waiting, cancelled, ended
  process,       \* monitor(): running, ended
  signalled      \* exit_event is set (SIGINT / SIGTERM)

monVars ==
  <<device_queue, found_ids, tasks, steps, tg, inner, process, signalled>>

(***************************************************************************)
(* State of monitor_printer_status: one device's job tracking              *)
(***************************************************************************)
VARIABLES
  jobPc,           \* monitor_printer_status: start, waiting (for a report),
                   \* update (awaiting a Slack call), saving, returned, raised
  state,           \* state: the PrinterState in memory
  state_file,      \* job.<prefix>.json: None or the JSON value it holds
  job_report,      \* report: the one being handled, or the last one handled
  handler,         \* the _job_* coroutine in progress
  sinkStep,        \* the Slack call that coroutine is awaiting
  calls,           \* Slack calls made for the report in job_report
  job_now,         \* datetime.now(), in seconds
  jobRaised,       \* the exception unwinding monitor_printer_status
  job_serialized,  \* serialized: the text the finally block will write
  nReports,        \* reports taken from the subscription
  state_writes     \* writes of the state file

jobVars ==
  <<jobPc, state, state_file, job_report, handler, sinkStep, calls, job_now,
    jobRaised, job_serialized, nReports, state_writes>>

(***************************************************************************)
(* Inputs and results of the operations applied to chosen inputs           *)
(***************************************************************************)
VARIABLES
  m_pc,      \* input, merged, remerged
  m_base,    \* the cached report before the message
  m_patch,   \* the "print" mapping of the message
  m_merged,  \* what _parse_payload returns for it
  m_again,   \* what it returns for an empty patch after that
  rt_pc,     \* value, saved, reloaded
  rt_orig,   \* the _Cache or PrinterState in memory
  rt_file,   \* the JSON value written to its file
  rt_back,   \* what the next start structures from the file
  headers    \* the headers handle_headers was last called with

pureVars ==
  <<m_pc, m_base, m_patch, m_merged, m_again, rt_pc, rt_orig, rt_file, rt_back,
    headers>>

(***************************************************************************)
(* Calls of __aenter__ and __aexit__ on one connection object              *)
(***************************************************************************)
VARIABLES
  created_tasks,  \* number of create_task(self._consume_messages()) calls
  runtime_errors  \* the RuntimeErrors __aenter__ and __aexit__ have raised

scopeVars == <<created_tasks, runtime_errors>>

vars == <<connVars, monVars, jobVars, pureVars, scopeVars>>

\* Queue[BambuStatusReport](): maxsize defaults to 0
QueueMaxsize == 0

\* Queue.full(): a maxsize <= 0 means the queue is never full
Full(q) == QueueMaxsize > 0 /\ Len(q) >= QueueMaxsize

\* queue.put_nowait(item), the QueueFull exception caught by the caller
PutNowait(q, item) == IF Full(q) THEN q ELSE Append(q, item)

\* variant: the push stops after the first registered queue
PutFirstOnly(qs, pend, item) ==
  [s \in Subs |-> IF qs # <<>> /\ s = qs[1] THEN Append(pend[s], item) ELSE pend[s]]

\* for queue in self._queues: queue.put_nowait(wrapper.print)
PutAll(qs, pend, item) ==
  [s \in Subs |-> IF s \in Range(qs) THEN PutNowait(pend[s], item) ELSE pend[s]]

\* variant: unregistering drops the oldest registered queue
RemoveOldest(qs, s) == Tail(qs)

\* variant: unregistering one queue unregisters every queue
RemoveAll(qs, s) == <<>>

\* list.remove(queue): drops the first occurrence
Remove(qs, s) == SelectSeq(qs, LAMBDA x : x # s)

\* variant: no exception class is caught
CaughtNothing(e) == FALSE

\* except MqttError
CaughtByConsume(e) == e = "MqttError"

ConnInit ==
  /\ scope = "new"
  /\ consume_task = "none"
  /\ raised = None
  /\ lastBad = FALSE
  /\ cache = EmptyCache
  /\ cache_file \in CacheFiles
  /\ serialized = None
  /\ writes = 0
  /\ queues = <<>>
  /\ pending = [s \in Subs |-> <<>>]
  /\ subPc = [s \in Subs |-> "idle"]
  /\ clock = 0
  /\ nMsgs = 0
  /\ nErrors = 0
  /\ nSleeps = 0
  /\ nClients = 0
  /\ loaded = EmptyCache
  /\ patches = <<>>
  /\ published = <<>>
  /\ regAt = [s \in Subs |-> 0]
  /\ unregAt = [s \in Subs |-> 0]
  /\ delivered = [s \in Subs |-> <<>>]
  /\ seen = [s \in Subs |-> <<>>]

\* _with_cache up to its yield: load the cache file when it exists
LoadCache(file) == IF file = None THEN EmptyCache ELSE StructCache(file[1])[1]

\* json.loads and structure of an existing cache file return
CacheLoads(file) == IF file = None THEN TRUE ELSE StructCache(file[1]) # None

\* __aenter__: load the cache, start the consume task
Enter ==
  /\ scope = "new"
  /\ consume_task = "none"
  /\ CacheLoads(cache_file)
  /\ scope' = "entered"
  /\ cache' = LoadCache(cache_file)
  /\ loaded' = LoadCache(cache_file)
  /\ consume_task' = "start"
  /\ created_tasks' = created_tasks + 1
  /\ UNCHANGED <<raised, lastBad, cache_file, serialized, writes, queues, pending, subPc,
                 clock, nMsgs, nErrors, nSleeps, nClients, patches, published,
                 regAt, unregAt, delivered, seen>>
  /\ UNCHANGED <<monVars, jobVars, pureVars, runtime_errors>>

\* __aenter__ with a cache file that cannot be loaded: the exception of
\* json.loads or structure leaves _with_cache before its try block and
\* __aenter__ before the consume task is created
EnterRaises ==
  /\ scope = "new"
  /\ consume_task = "none"
  /\ ~CacheLoads(cache_file)
  /\ scope' = "enter_raised"
  /\ UNCHANGED <<consume_task, raised, lastBad, cache, cache_file, serialized,
                 writes, queues, pending, subPc, clock, nMsgs, nErrors, nSleeps,
                 nClients, loaded, patches, published, regAt, unregAt,
                 delivered, seen>>
  /\ UNCHANGED <<monVars, jobVars, pureVars, scopeVars>>

\* variant: a second __aenter__ starts another consume task
EnterAgainStartsTask ==
  /\ consume_task # "none"
  /\ created_tasks < 2
  /\ created_tasks' = created_tasks + 1
  /\ UNCHANGED <<connVars, monVars, jobVars, pureVars, runtime_errors>>

\* __aenter__ while self._consume_task is not None (it is never reset, so
\* also after __aexit__): RuntimeError before anything else is done
EnterAgain ==
  /\ consume_task # "none"
  /\ runtime_errors' =
       runtime_errors \cup {"MQTT subscription already initialized"}
  /\ UNCHANGED <<connVars, monVars, jobVars, pureVars, created_tasks>>

\* __aexit__ while self._consume_task is None: RuntimeError, the exit stack
\* is not unwound
ExitNotEntered ==
  /\ consume_task = "none"
  /\ runtime_errors' =
       runtime_errors
         \cup {"MQTT subscription not initialized or already closed"}
  /\ UNCHANGED <<connVars, monVars, jobVars, pureVars, created_tasks>>

\* the consume task runs up to its first await: enter the CA certificate
\* resource, build the first Client, start connecting
ConsumeStart ==
  /\ consume_task = "start"
  /\ consume_task' = "connecting"
  /\ nClients' = nClients + 1
  /\ UNCHANGED <<scope, raised, lastBad, cache, cache_file, serialized, writes,
                 queues, pending, subPc, clock, nMsgs, nErrors, nSleeps,
                 loaded, patches, published, regAt, unregAt, delivered, seen>>
  /\ UNCHANGED <<monVars, jobVars, pureVars, scopeVars>>

\* async with client: the connection is made
Connected ==
  /\ consume_task = "connecting"
  /\ consume_task' = "subscribing"
  /\ UNCHANGED <<scope, raised, lastBad, cache, cache_file, serialized, writes, queues,
                 pending, subPc, clock, nMsgs, nErrors, nSleeps, nClients,
                 loaded, patches, published, regAt, unregAt, delivered, seen>>
  /\ UNCHANGED <<monVars, jobVars, pureVars, scopeVars>>

\* await client.subscribe(topic) returns
TopicSubscribed ==
  /\ consume_task = "subscribing"
  /\ consume_task' = "receiving"
  /\ UNCHANGED <<scope, raised, lastBad, cache, cache_file, serialized, writes, queues,
                 pending, subPc, clock, nMsgs, nErrors, nSleeps, nClients,
                 loaded, patches, published, regAt, unregAt, delivered, seen>>
  /\ UNCHANGED <<monVars, jobVars, pureVars, scopeVars>>

\* variant: only the timestamp is refreshed
StaleCache(c, report, now) ==
  [print |-> c.print, last_update |-> Some(now),
   last_full_update |-> c.last_full_update]

\* the cache after a parsed message
MergedCache(c, report, now) ==
  [print |-> Some(report), last_update |-> Some(now),
   last_full_update |-> c.last_full_update]

\* the history of publish numbers after a push
Deliver(dlv, pend, pend2, id) ==
  [s \in Subs |-> IF pend2[s] # pend[s] THEN Append(dlv[s], id) ELSE dlv[s]]

\* body of "async for message in client.messages"
Receive(p) ==
  /\ consume_task = "receiving"
  /\ nMsgs < MaxMsgs
  /\ nMsgs' = nMsgs + 1
  /\ clock' = clock + 1
  /\ lastBad' = BadPayload(p)
  /\ LET wrapper == ParsePayload(cache.print, p)
     IN IF wrapper # None
        THEN LET item == [id |-> Len(published) + 1, print |-> wrapper[1]]
                 pend2 == PutAll(queues, pending, item)
             IN /\ cache' = MergedCache(cache, wrapper[1], clock')
                /\ pending' = pend2
                /\ published' = Append(published, wrapper[1])
                /\ patches' = Append(patches, p)
                /\ delivered' = Deliver(delivered, pending, pend2, item.id)
        ELSE UNCHANGED <<cache, pending, published, patches, delivered>>
  /\ UNCHANGED <<scope, consume_task, raised, cache_file, serialized, writes,
                 queues, subPc, nErrors, nSleeps, nClients, loaded, regAt,
                 unregAt, seen>>
  /\ UNCHANGED <<monVars, jobVars, pureVars, scopeVars>>

\* an exception raised inside the try block (connect, subscribe, receive):
\* MqttError is caught and followed by the backoff sleep, anything else
\* leaves _consume_messages
ConsumeRaises(e) ==
  /\ consume_task \in {"connecting", "subscribing", "receiving"}
  /\ nErrors < MaxErrors
  /\ nErrors' = nErrors + 1
  /\ raised' = Some(e)
  /\ IF CaughtByConsume(e)
     THEN /\ consume_task' = "backoff"
          /\ nSleeps' = nSleeps + 1
     ELSE /\ consume_task' = "failed"
          /\ nSleeps' = nSleeps
  /\ UNCHANGED <<scope, lastBad, cache, cache_file, serialized, writes, queues, pending,
                 subPc, clock, nMsgs, nClients, loaded, patches, published,
                 regAt, unregAt, delivered, seen>>
  /\ UNCHANGED <<monVars, jobVars, pureVars, scopeVars>>

\* variant: the reconnect starts from an empty cache and no subscriptions
BackoffDoneResets ==
  /\ consume_task = "backoff"
  /\ consume_task' = "connecting"
  /\ nClients' = nClients + 1
  /\ cache' = EmptyCache
  /\ queues' = <<>>
  /\ UNCHANGED <<scope, raised, lastBad, cache_file, serialized, writes,
                 pending, subPc, clock, nMsgs, nErrors, nSleeps,
                 loaded, patches, published, regAt, unregAt, delivered, seen>>
  /\ UNCHANGED <<monVars, jobVars, pureVars, scopeVars>>

\* sleep(MQTT_ERROR_RECONNECT_DELAY) returns: back at the top of the loop a
\* new Client is built and starts connecting
BackoffDone ==
  /\ consume_task = "backoff"
  /\ consume_task' = "connecting"
  /\ nClients' = nClients + 1
  /\ UNCHANGED <<scope, raised, lastBad, cache, cache_file, serialized, writes,
                 queues, pending, subPc, clock, nMsgs, nErrors, nSleeps,
                 loaded, patches, published, regAt, unregAt, delivered, seen>>
  /\ UNCHANGED <<monVars, jobVars, pureVars, scopeVars>>

\* the ways an async-with scope is left; __aexit__ hands the exception, if
\* any, to the exit stack and does the same in every case
ExitPaths == {"normal", "exception", "cancellation"}

\* variant: __aexit__ unwinds the exit stack without cancelling the task
ExitWithoutCancel(how) ==
  /\ scope = "entered"
  /\ scope' = "exiting"
  /\ serialized' = Some(UnstructureCache(cache))
  /\ UNCHANGED <<consume_task, raised, lastBad, cache, cache_file, writes,
                 queues, pending, subPc, clock, nMsgs, nErrors, nSleeps,
                 nClients, loaded, patches, published, regAt, unregAt,
                 delivered, seen>>
  /\ UNCHANGED <<monVars, jobVars, pureVars, scopeVars>>

\* __aexit__ up to the first await of the finally block of _with_cache:
\* cancel the consume task, serialize the cache
Exit(how) ==
  /\ scope = "entered"
  /\ scope' = "exiting"
  /\ consume_task' = IF consume_task = "failed" THEN "failed" ELSE "cancelling"
  /\ serialized' = Some(UnstructureCache(cache))
  /\ UNCHANGED <<raised, lastBad, cache, cache_file, writes, queues, pending, subPc, clock,
                 nMsgs, nErrors, nSleeps, nClients, loaded, patches, published,
                 regAt, unregAt, delivered, seen>>
  /\ UNCHANGED <<monVars, jobVars, pureVars, scopeVars>>

\* the consume task receives CancelledError at its await and ends
ConsumeCancelled ==
  /\ consume_task = "cancelling"
  /\ consume_task' = "cancelled"
  /\ raised' = Some("CancelledError")
  /\ UNCHANGED <<scope, lastBad, cache, cache_file, serialized, writes, queues, pending,
                 subPc, clock, nMsgs, nErrors, nSleeps, nClients, loaded,
                 patches, published, regAt, unregAt, delivered, seen>>
  /\ UNCHANGED <<monVars, jobVars, pureVars, scopeVars>>

\* variant: the scope is left without writing the file
CloseWithoutSave ==
  /\ scope = "exiting"
  /\ scope' = "exited"
  /\ UNCHANGED <<consume_task, raised, lastBad, cache, cache_file,
                 serialized, writes, queues, pending, subPc, clock, nMsgs,
                 nErrors, nSleeps, nClients, loaded, patches, published, regAt,
                 unregAt, delivered, seen>>
  /\ UNCHANGED <<monVars, jobVars, pureVars, scopeVars>>

\* the finally block of _with_cache writes the file; __aexit__ returns
WriteCache ==
  /\ scope = "exiting"
  /\ scope' = "exited"
  /\ cache_file' = serialized
  /\ writes' = writes + 1
  /\ UNCHANGED <<consume_task, raised, lastBad, cache, serialized, queues, pending, subPc,
                 clock, nMsgs, nErrors, nSleeps, nClients, loaded, patches,
                 published, regAt, unregAt, delivered, seen>>
  /\ UNCHANGED <<monVars, jobVars, pureVars, scopeVars>>

\* variant: a new subscription is primed with the cached report
ReplayQueue(c) ==
  IF c.print = None THEN <<>> ELSE <<[id |-> 0, print |-> c.print[1]]>>

\* the queue a new subscription starts with: Queue()
NewQueue(c) == <<>>

\* subscribe() up to its yield: create a queue and register it
Subscribe(s) ==
  /\ scope = "entered"
  /\ subPc[s] = "idle"
  /\ subPc' = [subPc EXCEPT ![s] = "subscribed"]
  /\ queues' = Append(queues, s)
  /\ pending' = [pending EXCEPT ![s] = NewQueue(cache)]
  /\ regAt' = [regAt EXCEPT ![s] = Len(published)]
  /\ UNCHANGED <<scope, consume_task, raised, lastBad, cache, cache_file, serialized,
                 writes, clock, nMsgs, nErrors, nSleeps, nClients, loaded,
                 patches, published, unregAt, delivered, seen>>
  /\ UNCHANGED <<monVars, jobVars, pureVars, scopeVars>>

\* variant: the consumer takes the newest item
NewestItem(q) == q[Len(q)]

\* the item queue.get() returns
NextItem(q) == Head(q)

\* the queue after queue.get()
AfterGet(q) == Tail(q)

\* _consume_queue: yield await queue.get()
Get(s) ==
  /\ subPc[s] = "subscribed"
  /\ pending[s] # <<>>
  /\ seen' = [seen EXCEPT ![s] = Append(seen[s], NextItem(pending[s]))]
  /\ pending' = [pending EXCEPT ![s] = AfterGet(pending[s])]
  /\ UNCHANGED <<scope, consume_task, raised, lastBad, cache, cache_file, serialized,
                 writes, queues, subPc, clock, nMsgs, nErrors, nSleeps,
                 nClients, loaded, patches, published, regAt, unregAt,
                 delivered>>
  /\ UNCHANGED <<monVars, jobVars, pureVars, scopeVars>>

\* the finally block of subscribe(): unregister the queue
Unsubscribe(s) ==
  /\ subPc[s] = "subscribed"
  /\ subPc' = [subPc EXCEPT ![s] = "closed"]
  /\ queues' = Remove(queues, s)
  /\ unregAt' = [unregAt EXCEPT ![s] = Len(published)]
  /\ UNCHANGED <<scope, consume_task, raised, lastBad, cache, cache_file, serialized,
                 writes, pending, clock, nMsgs, nErrors, nSleeps, nClients,
                 loaded, patches, published, regAt, delivered, seen>>
  /\ UNCHANGED <<monVars, jobVars, pureVars, scopeVars>>

ConnNext ==
  \/ Enter
  \/ EnterRaises
  \/ ConsumeStart
  \/ Connected
  \/ TopicSubscribed
  \/ \E p \in Payloads : Receive(p)
  \/ \E e \in {"MqttError", "Exception"} : ConsumeRaises(e)
  \/ BackoffDone
  \/ \E how \in ExitPaths : Exit(how)
  \/ ConsumeCancelled
  \/ WriteCache
  \/ \E s \in Subs : Subscribe(s)
  \/ \E s \in Subs : Get(s)
  \/ \E s \in Subs : Unsubscribe(s)

(***************************************************************************)
(* inner_loop and monitor (souzu/commands/monitor.py)                      *)
(***************************************************************************)
Devices == {"printerA", "printerB"}

\* the tasks inner_loop starts for one device
Roles == {"consume", "logger", "tracker"}

\* log_reports: except Exception
CaughtByLogger(e) == e \in {"MqttError", "Exception"}

\* monitor_printer_status: except CancelledError: raise / except Exception
CaughtByTracker(e) == e \in {"MqttError", "Exception"}

MonInit ==
  /\ device_queue = <<>>
  /\ found_ids = {}
  /\ tasks = [d \in Devices |-> [r \in Roles |-> "none"]]
  /\ steps = [d \in Devices |-> [r \in Roles |-> 0]]
  /\ tg = "active"
  /\ inner = "waiting"
  /\ process = "running"
  /\ signalled = FALSE

\* BambuDiscovery.handle_headers: a printer announces itself
\* the NT header of a printer's advertisement
PrinterNT == "urn:bambulab-com:device:3dprinter:1"

\* the headers of an advertisement; None for a header that is not sent
Headers(nt, location, usn, devname) ==
  [NT |-> nt, Location |-> location, USN |-> usn, DevName |-> devname]

HeaderLists ==
  {Headers(nt, location, usn, devname) :
     nt \in {None, Some(PrinterNT), Some("upnp:rootdevice")},
     location \in {None, Some(""), Some("10.0.0.1"), Some("10.0.0.2")},
     usn \in {None, Some("")} \cup {Some(d) : d \in Devices},
     devname \in {None, Some("Bob")}}

\* truth value of headers.get(name): a missing or empty header is falsy
Truthy(o) == o # None /\ o # Some("")

\* variant: an identifier already found is queued again
EmitsAgain(h) ==
  /\ h.NT = Some(PrinterNT)
  /\ Truthy(h.Location)
  /\ Truthy(h.USN)

\* handle_headers puts a device on the queue
Emits(h) ==
  /\ h.NT = Some(PrinterNT)
  /\ ~(h.USN # None /\ h.USN[1] \in found_ids)
  /\ Truthy(h.Location)
  /\ Truthy(h.USN)

\* BambuDiscovery.handle_headers, for any advertisement
HandleHeaders(h) ==
  /\ process = "running"
  /\ headers' = Some(h)
  /\ IF Emits(h)
     THEN /\ device_queue' = Append(device_queue, h.USN[1])
          /\ found_ids' = found_ids \cup {h.USN[1]}
     ELSE UNCHANGED <<device_queue, found_ids>>
  /\ UNCHANGED <<tasks, steps, tg, inner, process, signalled>>
  /\ UNCHANGED <<connVars, jobVars, scopeVars>>
  /\ UNCHANGED <<m_pc, m_base, m_patch, m_merged, m_again, rt_pc, rt_orig,
                 rt_file, rt_back>>

DiscoveryNext == \E h \in HeaderLists : HandleHeaders(h)

\* handle_headers for a well-formed advertisement of a device not found yet
Discover(d) ==
  /\ process = "running"
  /\ d \notin found_ids
  /\ device_queue' = Append(device_queue, d)
  /\ found_ids' = found_ids \cup {d}
  /\ UNCHANGED <<tasks, steps, tg, inner, process, signalled>>
  /\ UNCHANGED <<connVars, jobVars, pureVars, scopeVars>>

\* variant: a failure to set the connection up leaves the while loop and
\* aborts the task group
SetupDeviceFailureEndsLoop(ok) ==
  /\ inner = "waiting"
  /\ device_queue # <<>>
  /\ device_queue' = Tail(device_queue)
  /\ IF ok
     THEN /\ tasks' = [tasks EXCEPT ![Head(device_queue)] =
                                      [r \in Roles |-> "running"]]
          /\ UNCHANGED <<tg, inner>>
     ELSE /\ tasks' = [d \in Devices |-> [r \in Roles |->
                         IF tasks[d][r] = "running" THEN "cancelling"
                                                    ELSE tasks[d][r]]]
          /\ tg' = "aborting"
          /\ inner' = "cancelled"
  /\ UNCHANGED <<found_ids, steps, process, signalled>>
  /\ UNCHANGED <<connVars, jobVars, pureVars, scopeVars>>

\* body of the while loop of inner_loop: enter the connection (which starts
\* the consume task), start the logger and the job tracker; a failure to set
\* the connection up is logged
SetupDevice(ok) ==
  /\ inner = "waiting"
  /\ device_queue # <<>>
  /\ device_queue' = Tail(device_queue)
  /\ tasks' = IF ok THEN [tasks EXCEPT ![Head(device_queue)] =
                                      [r \in Roles |-> "running"]]
              ELSE tasks
  /\ UNCHANGED <<found_ids, steps, tg, inner, process, signalled>>
  /\ UNCHANGED <<connVars, jobVars, pureVars, scopeVars>>

\* a task handles one message (consume) or one report (logger, tracker);
\* a subscriber only gets the reports its connection has published
TaskStep(d, r) ==
  /\ tasks[d][r] = "running"
  /\ steps[d][r] < MaxSteps
  /\ r # "consume" => steps[d][r] < steps[d]["consume"]
  /\ steps' = [steps EXCEPT ![d][r] = @ + 1]
  /\ UNCHANGED <<device_queue, found_ids, tasks, tg, inner, process, signalled>>
  /\ UNCHANGED <<connVars, jobVars, pureVars, scopeVars>>

\* the exception handlers of the three task bodies
Caught(r, e) ==
  CASE r = "consume" -> CaughtByConsume(e)
    [] r = "logger" -> CaughtByLogger(e)
    [] r = "tracker" -> CaughtByTracker(e)

\* TaskGroup._abort: cancel every task of the group that is still running
AbortAll(ts) ==
  [d \in Devices |-> [r \in Roles |->
     IF ts[d][r] = "running" THEN "cancelling" ELSE ts[d][r]]]

\* an exception is raised inside a task. The consume loop goes on after a
\* caught one (backoff, reconnect); the logger and the tracker log it and
\* return. An exception that is not caught ends the task, and the task
\* group then cancels its other tasks and its parent, inner_loop.
TaskRaises(d, r, e) ==
  /\ tasks[d][r] = "running"
  /\ IF Caught(r, e)
     THEN /\ tasks' = IF r = "consume" THEN tasks
                      ELSE [tasks EXCEPT ![d][r] = "done"]
          /\ steps' = IF r = "consume" /\ steps[d][r] < MaxSteps
                      THEN [steps EXCEPT ![d][r] = @ + 1] ELSE steps
          /\ r = "consume" => steps[d][r] < MaxSteps
          /\ UNCHANGED <<tg, inner>>
     ELSE /\ tasks' = AbortAll([tasks EXCEPT ![d][r] = "failed"])
          /\ tg' = "aborting"
          /\ inner' = IF inner = "waiting" THEN "cancelled" ELSE inner
          /\ UNCHANGED steps
  /\ UNCHANGED <<device_queue, found_ids, process, signalled>>
  /\ UNCHANGED <<connVars, jobVars, pureVars, scopeVars>>

\* exit_handler: the exit event ends monitor(), which cancels inner_loop
ExitSignal ==
  /\ process = "running"
  /\ ~signalled
  /\ signalled' = TRUE
  /\ inner' = IF inner = "waiting" THEN "cancelled" ELSE inner
  /\ UNCHANGED <<device_queue, found_ids, tasks, steps, tg, process>>
  /\ UNCHANGED <<connVars, jobVars, pureVars, scopeVars>>

\* inner_loop leaves its "async with": the task group cancels the tasks
\* still running and waits for them
InnerLoopUnwinds ==
  /\ inner = "cancelled"
  /\ \E d \in Devices, r \in Roles : tasks[d][r] = "running"
  /\ tasks' = AbortAll(tasks)
  /\ UNCHANGED <<device_queue, found_ids, steps, tg, inner, process, signalled>>
  /\ UNCHANGED <<connVars, jobVars, pureVars, scopeVars>>

\* a cancelled task gets CancelledError at its await and ends
TaskCancelled(d, r) ==
  /\ tasks[d][r] = "cancelling"
  /\ tasks' = [tasks EXCEPT ![d][r] = "cancelled"]
  /\ UNCHANGED <<device_queue, found_ids, steps, tg, inner, process, signalled>>
  /\ UNCHANGED <<connVars, jobVars, pureVars, scopeVars>>

\* every task has ended: inner_loop ends, and with it monitor()
InnerLoopEnds ==
  /\ inner = "cancelled"
  /\ \A d \in Devices, r \in Roles : tasks[d][r] \notin {"running", "cancelling"}
  /\ inner' = "ended"
  /\ process' = "ended"
  /\ UNCHANGED <<device_queue, found_ids, tasks, steps, tg, signalled>>
  /\ UNCHANGED <<connVars, jobVars, pureVars, scopeVars>>

MonNext ==
  \/ \E d \in Devices : Discover(d)
  \/ \E ok \in BOOLEAN : SetupDevice(ok)
  \/ \E d \in Devices, r \in Roles : TaskStep(d, r)
  \/ \E d \in Devices, r \in Roles, e \in {"MqttError", "Exception"} :
       TaskRaises(d, r, e)
  \/ ExitSignal
  \/ InnerLoopUnwinds
  \/ \E d \in Devices, r \in Roles : TaskCancelled(d, r)
  \/ InnerLoopEnds

(***************************************************************************)
(* Job tracking: PrintJob, PrinterState and the state file                 *)
(***************************************************************************)
\* CONFIG.slack.print_notification_channel of a configured installation
PrintNotificationChannel == Some("prints")

\* souzu.bambu.errors: 0x0300400C and 0x0500400E are user cancellations
CANCELLED_ERROR_CODES == {50348044, 83902478}

\* souzu.bambu.errors: the known codes (0x0300800A is a filament pile-up)
ERROR_CODES ==
  [c \in CANCELLED_ERROR_CODES \cup {50364426} |-> <<"message", c>>]

\* parse_error_code(code): the text for a code
parse_error_code(code) ==
  IF code = None THEN <<"Unknown error code">>
  ELSE IF code[1] \in DOMAIN ERROR_CODES THEN ERROR_CODES[code[1]]
  ELSE <<"Unknown error code", code[1]>>

\* timedelta(minutes=n), in seconds
Minutes(n) == n * 60

\* the fields of a BambuStatusReport that job tracking reads
Snapshot(gs, rt, pe) ==
  [gcode_state |-> gs, mc_remaining_time |-> rt, print_error |-> pe]

\* the start message rendered from duration and eta
StartMessage(duration, eta) == <<"Print started", duration, eta>>

\* PrintJob(duration, eta, state, slack_channel, slack_thread_ts, start_message)
PrintJob(duration, eta, st, channel, ts, msg) ==
  [duration |-> duration, eta |-> eta, state |-> st, slack_channel |-> channel,
   slack_thread_ts |-> ts, start_message |-> msg]

\* PrinterState()
EmptyState == [current_job |-> None]

\* _STATE_SERIALIZER hooks: timedelta as total_seconds(), JobState as value
UnstructureJob(j) ==
  JDict([duration |-> JInt(j.duration),
         eta |-> UnTime(j.eta),
         state |-> JStr(j.state),
         slack_channel |-> UnStr(j.slack_channel),
         slack_thread_ts |-> UnStr(j.slack_thread_ts),
         start_message |-> UnStr(j.start_message)])

\* _STATE_SERIALIZER.unstructure(state), the content json.dumps writes
UnstructureState(s) ==
  JDict([current_job |-> IF s.current_job = None THEN JNull
                         ELSE UnstructureJob(s.current_job[1])])

\* JobState(state_value): ValueError for any other value
StructJobState(v) ==
  IF v.t = "str" /\ v.s \in {"running", "paused"} THEN Some(v.s) ELSE None

\* structure(value, PrintJob): duration is required, state defaults to
\* RUNNING, the others to None; None when it raises
StructJob(v) ==
  IF v.t # "dict" THEN None
  ELSE LET du == IF "duration" \in DOMAIN v.d /\ v.d["duration"].t = "int"
                 THEN Some(v.d["duration"].n) ELSE None
           et == StructTime(Field(v.d, "eta"))
           st == IF "state" \in DOMAIN v.d THEN StructJobState(v.d["state"])
                 ELSE Some("running")
           ch == StructStr(Field(v.d, "slack_channel"))
           ts == StructStr(Field(v.d, "slack_thread_ts"))
           sm == StructStr(Field(v.d, "start_message"))
       IN IF du = None \/ et = None \/ st = None THEN None
          ELSE Some(PrintJob(du[1], et[1], st[1], ch[1], ts[1], sm[1]))

\* _STATE_SERIALIZER.structure(state_str, PrinterState); None when it raises
StructState(v) ==
  IF v.t # "dict" THEN None
  ELSE LET jv == Field(v.d, "current_job")
       IN IF jv.t = "null" THEN Some(EmptyState)
          ELSE IF StructJob(jv) = None THEN None
          ELSE Some([current_job |-> Some(StructJob(jv)[1])])

(***************************************************************************)
(* Inputs of the job-tracking model                                        *)
(***************************************************************************)
\* gcode_state values: the five the match names, one it does not, and absent
GcodeStates ==
  {None, Some("RUNNING"), Some("PAUSE"), Some("FINISH"), Some("FAILED"),
   Some("IDLE"), Some("PREPARE")}

\* mc_remaining_time, in minutes
RemainingTimes == {None, Some(60), Some(120)}

\* print_error: absent, a user cancellation, a known failure
PrintErrors == {None, Some(50348044), Some(50364426)}

Snapshots ==
  {Snapshot(gs, rt, pe) : gs \in GcodeStates, rt \in RemainingTimes,
                          pe \in PrintErrors}

\* a job saved by an earlier run: running in a thread, paused without one
SavedRunningJob ==
  PrintJob(Minutes(120), Some(Minutes(120)), "running",
           PrintNotificationChannel, Some("ts0"),
           Some(StartMessage(Minutes(120), Minutes(120))))

SavedPausedJob ==
  PrintJob(Minutes(60), None, "paused", None, None,
           Some(StartMessage(Minutes(60), Minutes(60))))

\* what the state file may hold when the task starts (the last is corrupt)
StateFiles ==
  {None,
   Some(UnstructureState(EmptyState)),
   Some(UnstructureState([current_job |-> Some(SavedRunningJob)])),
   Some(UnstructureState([current_job |-> Some(SavedPausedJob)])),
   Some(JStr("corrupt"))}

(***************************************************************************)
(* Job tracking: the match of monitor_printer_status and the handlers      *)
(***************************************************************************)
\* variant: a RUNNING report resumes any tracked job, running or paused
HandlerAnyRunning(job, gs) ==
  IF job = None
  THEN IF gs = Some("RUNNING") THEN "_job_started" ELSE "none"
  ELSE IF gs = Some("PAUSE") /\ job[1].state = "running" THEN "_job_paused"
  ELSE IF gs = Some("RUNNING") THEN "_job_resumed"
  ELSE IF gs = Some("FINISH") THEN "_job_completed"
  ELSE IF gs = Some("FAILED") THEN "_job_failed"
  ELSE IF gs = Some("IDLE") THEN "_job_tracking_lost"
  ELSE "none"

\* match (state.current_job, report.gcode_state): the handler of the first
\* case that matches, "none" when no case does
Handler(job, gs) ==
  IF job = None
  THEN IF gs = Some("RUNNING") THEN "_job_started" ELSE "none"
  ELSE IF gs = Some("PAUSE") /\ job[1].state = "running" THEN "_job_paused"
  ELSE IF gs = Some("RUNNING") /\ job[1].state = "paused" THEN "_job_resumed"
  ELSE IF gs = Some("FINISH") THEN "_job_completed"
  ELSE IF gs = Some("FAILED") THEN "_job_failed"
  ELSE IF gs = Some("IDLE") THEN "_job_tracking_lost"
  ELSE "none"

\* the assert at the top of _job_started and _job_resumed
AssertionHolds(h, r) ==
  h \in {"_job_started", "_job_resumed"} => r.mc_remaining_time # None

\* variant: the remaining time is read as seconds
JobDurationSeconds(r) == r.mc_remaining_time[1]

\* timedelta(minutes=report.mc_remaining_time)
JobDuration(r) == Minutes(r.mc_remaining_time[1])

\* variant: the job is kept only when the post succeeded
JobStartedInTry(r, t, outcome) ==
  IF outcome = "error" THEN None
  ELSE Some(PrintJob(JobDuration(r), Some(t + JobDuration(r)), "running",
                     PrintNotificationChannel,
                     IF outcome = "ts" THEN Some("ts1") ELSE None,
                     Some(StartMessage(JobDuration(r), t + JobDuration(r)))))

\* _job_started: the job that becomes state.current_job, given what
\* post_to_channel did (returned a ts, returned None, raised SlackApiError)
JobStarted(r, t, outcome) ==
  Some(PrintJob(JobDuration(r), Some(t + JobDuration(r)), "running",
                IF outcome = "error" THEN None ELSE PrintNotificationChannel,
                IF outcome = "ts" THEN Some("ts1") ELSE None,
                Some(StartMessage(JobDuration(r), t + JobDuration(r)))))

\* variant: the ETA of the running job is kept while paused
JobPausedKeepsEta(job) == Some([job EXCEPT !.state = "paused"])

\* _job_paused: state.current_job after the update
JobPaused(job) == Some([job EXCEPT !.state = "paused", !.eta = None])

\* variant: the ETA is computed from the job's original duration
JobResumedOldDuration(job, r, t) ==
  Some([job EXCEPT !.state = "running", !.eta = Some(t + job.duration)])

\* _job_resumed: state.current_job after the update
JobResumed(job, r, t) ==
  Some([job EXCEPT !.state = "running", !.eta = Some(t + JobDuration(r))])

\* variant: the finished job stays tracked
JobCompletedKeepsJob(job) == Some(job)

\* _job_completed: state.current_job = None
JobCompleted(job) == None

\* variant: a failed job stays tracked for a retry
JobFailedKeepsJob(job) == Some(job)

\* _job_failed: state.current_job = None on both branches
JobFailed(job) == None

\* variant: the job is kept, paused, until the printer is seen again
JobTrackingLostKeepsJob(job) == Some([job EXCEPT !.state = "paused"])

\* _job_tracking_lost: state.current_job = None
JobTrackingLost(job) == None

\* variant: a RUNNING report for a paused job starts a new job
HandlerEffectRestarts(h, job, r, t, outcome) ==
  CASE h \in {"_job_started", "_job_resumed"} -> JobStarted(r, t, outcome)
    [] h = "_job_paused" -> JobPaused(job[1])
    [] h = "_job_completed" -> JobCompleted(job[1])
    [] h = "_job_failed" -> JobFailed(job[1])
    [] h = "_job_tracking_lost" -> JobTrackingLost(job[1])

\* state.current_job when handler h returns
HandlerEffect(h, job, r, t, outcome) ==
  CASE h = "_job_started" -> JobStarted(r, t, outcome)
    [] h = "_job_paused" -> JobPaused(job[1])
    [] h = "_job_resumed" -> JobResumed(job[1], r, t)
    [] h = "_job_completed" -> JobCompleted(job[1])
    [] h = "_job_failed" -> JobFailed(job[1])
    [] h = "_job_tracking_lost" -> JobTrackingLost(job[1])

\* variant: every FAILED report is announced as a failure
FailedNoticeAlwaysFailure(r) ==
  [kind |-> "failed", detail |-> Some(parse_error_code(r.print_error))]

\* _job_failed: the cancelled message for a code in CANCELLED_ERROR_CODES,
\* else the failure message with the decoded error
FailedNotice(r) ==
  IF r.print_error # None /\ r.print_error[1] \in CANCELLED_ERROR_CODES
  THEN [kind |-> "cancelled", detail |-> None]
  ELSE [kind |-> "failed", detail |-> Some(parse_error_code(r.print_error))]

\* update_message: what the handler posts (the long message)
UpdateMessage(h, r, t) ==
  CASE h = "_job_started" ->
         [kind |-> "started",
          detail |-> Some(StartMessage(JobDuration(r), t + JobDuration(r)))]
    [] h = "_job_paused" ->
         [kind |-> "paused",
          detail |-> IF r.print_error # None /\ r.print_error[1] # 0
                     THEN Some(parse_error_code(r.print_error)) ELSE None]
    [] h = "_job_resumed" ->
         [kind |-> "resumed", detail |-> Some(<<"eta", t + JobDuration(r)>>)]
    [] h = "_job_completed" -> [kind |-> "finished", detail |-> None]
    [] h = "_job_failed" -> FailedNotice(r)
    [] h = "_job_tracking_lost" -> [kind |-> "tracking_lost", detail |-> None]

\* edited_message: the short message put on the start message
EditedMessage(h, r, t) ==
  [kind |-> UpdateMessage(h, r, t).kind,
   detail |-> IF h = "_job_resumed" THEN UpdateMessage(h, r, t).detail
              ELSE None]

(***************************************************************************)
(* Job tracking: the Slack calls of a handler                              *)
(***************************************************************************)
\* variant: _update_thread always makes the one post to the channel
FirstSinkStepChannelOnly(h, job) ==
  IF h = "_job_started" THEN "start_post" ELSE "post_to_channel"

\* the first Slack call of handler h: _job_started posts to the channel,
\* _update_thread posts to the channel when the job has no thread
FirstSinkStep(h, job) ==
  IF h = "_job_started" THEN "start_post"
  ELSE IF job[1].slack_thread_ts = None THEN "post_to_channel"
  ELSE "post_to_thread"

\* variant: _update_thread returns after the fallback post
NextSinkStepFallbackReturns(step, outcome, job) ==
  CASE step \in {"start_post", "post_to_channel", "edit_message"} -> "done"
    [] step = "post_to_thread" ->
         IF outcome = "error" /\ job[1].slack_thread_ts \notin {None, Some("")}
         THEN "fallback" ELSE "edit_message"
    [] step = "fallback" -> "done"

\* _update_thread: the call that follows `step`, "done" when it returns; the
\* fallback post is made when the reply raised and job.slack_thread_ts is
\* truthy (it is not None on this path, so: not the empty string)
NextSinkStep(step, outcome, job) ==
  CASE step \in {"start_post", "post_to_channel", "edit_message"} -> "done"
    [] step = "post_to_thread" ->
         IF outcome = "error" /\ job[1].slack_thread_ts \notin {None, Some("")}
         THEN "fallback" ELSE "edit_message"
    [] step = "fallback" -> "edit_message"

\* the function of souzu.slack.thread a step calls
SinkFn(step) ==
  IF step \in {"start_post", "post_to_channel", "fallback"}
  THEN "post_to_channel" ELSE step

\* what a call can do: return (a ts or None) or raise SlackApiError
Outcomes(step) ==
  IF step = "start_post" THEN {"ts", "none", "error"} ELSE {"ok", "error"}

Call(fn, msg, outcome) ==
  [fn |-> fn, kind |-> msg.kind, detail |-> msg.detail, outcome |-> outcome]

(***************************************************************************)
(* Job tracking: monitor_printer_status                                    *)
(***************************************************************************)
JobInit(file) ==
  /\ jobPc = "start"
  /\ state = EmptyState
  /\ state_file = file
  /\ job_report = None
  /\ handler = "none"
  /\ sinkStep = "none"
  /\ calls = <<>>
  /\ job_now = 0
  /\ jobRaised = None
  /\ job_serialized = None
  /\ nReports = 0
  /\ state_writes = 0

\* the state file is read if it exists; a file that does not load raises,
\* which the outer except Exception logs
LoadState ==
  /\ jobPc = "start"
  /\ LET fromFile == IF state_file = None THEN Some(EmptyState)
                   ELSE StructState(state_file[1])
     IN IF fromFile = None
        THEN /\ jobRaised' = Some("Exception")
             /\ jobPc' = "returned"
             /\ UNCHANGED state
        ELSE /\ state' = fromFile[1]
             /\ jobPc' = "waiting"
             /\ UNCHANGED jobRaised
  /\ UNCHANGED <<state_file, job_report, handler, sinkStep, calls, job_now,
                 job_serialized, nReports, state_writes>>
  /\ UNCHANGED <<connVars, monVars, pureVars, scopeVars>>

\* the state file loaded, but entering connection.subscribe() raises: the
\* exception unwinds into the finally block with the state just loaded
SubscribeFails ==
  /\ jobPc = "start"
  /\ LET fromFile == IF state_file = None THEN Some(EmptyState)
                     ELSE StructState(state_file[1])
     IN /\ fromFile # None
        /\ state' = fromFile[1]
        /\ job_serialized' = Some(UnstructureState(fromFile[1]))
  /\ jobRaised' = Some("ValueError")
  /\ jobPc' = "saving"
  /\ UNCHANGED <<state_file, job_report, handler, sinkStep, calls, job_now,
                 nReports, state_writes>>
  /\ UNCHANGED <<connVars, monVars, pureVars, scopeVars>>

\* variant: a failed assert is logged and the loop takes the next report
TakeReportAssertContinues(r) ==
  /\ jobPc = "waiting"
  /\ nReports < MaxReports
  /\ job_report' = Some(r)
  /\ nReports' = nReports + 1
  /\ job_now' = job_now + 60
  /\ calls' = <<>>
  /\ LET h == Handler(state.current_job, r.gcode_state)
     IN IF h = "none"
        THEN UNCHANGED <<jobPc, handler, sinkStep, jobRaised, job_serialized>>
        ELSE IF ~AssertionHolds(h, r)
        THEN /\ jobRaised' = Some("AssertionError")
             /\ UNCHANGED <<jobPc, handler, sinkStep, job_serialized>>
        ELSE /\ jobPc' = "update"
             /\ handler' = h
             /\ sinkStep' = FirstSinkStep(h, state.current_job)
             /\ UNCHANGED <<jobRaised, job_serialized>>
  /\ UNCHANGED <<state, state_file, state_writes>>
  /\ UNCHANGED <<connVars, monVars, pureVars, scopeVars>>

\* async for report in reports: match (state.current_job, gcode_state), then
\* the handler up to its first Slack call; a failed assert unwinds into the
\* finally block
TakeReport(r) ==
  /\ jobPc = "waiting"
  /\ nReports < MaxReports
  /\ job_report' = Some(r)
  /\ nReports' = nReports + 1
  /\ job_now' = job_now + 60
  /\ calls' = <<>>
  /\ LET h == Handler(state.current_job, r.gcode_state)
     IN IF h = "none"
        THEN UNCHANGED <<jobPc, handler, sinkStep, jobRaised, job_serialized>>
        ELSE IF ~AssertionHolds(h, r)
        THEN /\ jobRaised' = Some("AssertionError")
             /\ jobPc' = "saving"
             /\ job_serialized' = Some(UnstructureState(state))
             /\ UNCHANGED <<handler, sinkStep>>
        ELSE /\ jobPc' = "update"
             /\ handler' = h
             /\ sinkStep' = FirstSinkStep(h, state.current_job)
             /\ UNCHANGED <<jobRaised, job_serialized>>
  /\ UNCHANGED <<state, state_file, state_writes>>
  /\ UNCHANGED <<connVars, monVars, pureVars, scopeVars>>

\* one Slack call returns or raises SlackApiError (caught and logged); after
\* the last call the handler assigns state.current_job and returns
SinkCall(outcome) ==
  /\ jobPc = "update"
  /\ outcome \in Outcomes(sinkStep)
  /\ LET r == job_report[1]
         msg == IF sinkStep = "edit_message" THEN EditedMessage(handler, r, job_now)
                ELSE UpdateMessage(handler, r, job_now)
         nxt == NextSinkStep(sinkStep, outcome, state.current_job)
     IN /\ calls' = Append(calls, Call(SinkFn(sinkStep), msg, outcome))
        /\ IF nxt = "done"
           THEN /\ state' = [current_job |->
                               HandlerEffect(handler, state.current_job, r,
                                             job_now, outcome)]
                /\ jobPc' = "waiting"
                /\ handler' = "none"
                /\ sinkStep' = "none"
           ELSE /\ sinkStep' = nxt
                /\ UNCHANGED <<state, jobPc, handler>>
  /\ UNCHANGED <<state_file, job_report, job_now, jobRaised, job_serialized, nReports,
                 state_writes>>
  /\ UNCHANGED <<connVars, monVars, pureVars, scopeVars>>

\* the task is cancelled while it awaits a report or a Slack call: the
\* CancelledError unwinds into the finally block, which serializes the state
CancelJob ==
  /\ jobPc \in {"waiting", "update"}
  /\ jobRaised' = Some("CancelledError")
  /\ jobPc' = "saving"
  /\ job_serialized' = Some(UnstructureState(state))
  /\ UNCHANGED <<state, state_file, job_report, handler, sinkStep, calls, job_now,
                 nReports, state_writes>>
  /\ UNCHANGED <<connVars, monVars, pureVars, scopeVars>>

\* variant: the finally block closes the file without writing
SkipWriteState ==
  /\ jobPc = "saving"
  /\ jobPc' = IF jobRaised = Some("CancelledError") THEN "raised"
              ELSE "returned"
  /\ UNCHANGED <<state, state_file, job_report, handler, sinkStep, calls, job_now,
                 jobRaised, job_serialized, nReports, state_writes>>
  /\ UNCHANGED <<connVars, monVars, pureVars, scopeVars>>

\* finally: the serialized state is written; a CancelledError is re-raised,
\* any other exception is logged by the outer except Exception
WriteState ==
  /\ jobPc = "saving"
  /\ state_file' = job_serialized
  /\ state_writes' = state_writes + 1
  /\ jobPc' = IF jobRaised = Some("CancelledError") THEN "raised"
              ELSE "returned"
  /\ UNCHANGED <<state, job_report, handler, sinkStep, calls, job_now, jobRaised,
                 job_serialized, nReports>>
  /\ UNCHANGED <<connVars, monVars, pureVars, scopeVars>>

\* what open('w') leaves when the write after it fails: an empty file
TruncatedFile == Some(JStr(""))

\* variant: the OSError of the finally block leaves the task
WriteStateFailsPropagates(truncated) ==
  /\ jobPc = "saving"
  /\ state_file' = IF truncated THEN TruncatedFile ELSE state_file
  /\ jobRaised' = Some("OSError")
  /\ jobPc' = "raised"
  /\ UNCHANGED <<state, job_report, handler, sinkStep, calls, job_now,
                 job_serialized, nReports, state_writes>>
  /\ UNCHANGED <<connVars, monVars, pureVars, scopeVars>>

\* finally: opening the file or writing it raises OSError, which replaces
\* the exception that was unwinding (a CancelledError too) and is logged by
\* the outer except Exception; the file is untouched or left truncated
WriteStateFails(truncated) ==
  /\ jobPc = "saving"
  /\ state_file' = IF truncated THEN TruncatedFile ELSE state_file
  /\ jobRaised' = Some("OSError")
  /\ jobPc' = "returned"
  /\ UNCHANGED <<state, job_report, handler, sinkStep, calls, job_now,
                 job_serialized, nReports, state_writes>>
  /\ UNCHANGED <<connVars, monVars, pureVars, scopeVars>>

JobNext ==
  \/ LoadState
  \/ SubscribeFails
  \/ \E r \in Snapshots : TakeReport(r)
  \/ \E outcome \in {"ts", "none", "ok", "error"} : SinkCall(outcome)
  \/ CancelJob
  \/ WriteState
  \/ \E truncated \in BOOLEAN : WriteStateFails(truncated)

(***************************************************************************)
(* The merge and the (un)structuring applied to chosen inputs              *)
(***************************************************************************)
\* a field the patch does not contain
Absent == [t |-> "absent"]

\* the "print" mapping of a patch: the fields that are not Absent
PrintPatch(gs, rt, bt, lr, am) ==
  LET c == [gcode_state |-> gs, mc_remaining_time |-> rt, bed_temper |-> bt,
            lights_report |-> lr, ams |-> am]
  IN JDict([k \in {f \in DOMAIN c : c[f] # Absent} |-> c[k]])

JLight(node, mode) == JDict([node |-> JStr(node), mode |-> JStr(mode)])

\* the patches: each field absent or given one of a few values
PrintPatches ==
  {PrintPatch(gs, rt, bt, lr, am) :
     gs \in {Absent, JStr("RUNNING"), JNull},
     rt \in {Absent, JInt(60)},
     bt \in {Absent, JInt(60), JFloat(602), JFloat(605), JFloat(607),
             JFloat(615)},
     lr \in {Absent, JList(<<>>),
             JList(<<JLight("chamber_light", "on"),
                     JLight("side_light", "flashing")>>)},
     am \in {Absent,
             JDict([tray_now |-> JInt(2)]),
             JDict([ams |-> JList(<<>>)]),
             JDict([ams |-> JList(<<JDict([id |-> JInt(1)])>>)])}}

\* a report with every field present
FullReport ==
  Report(Some("PAUSE"), Some(30),
         <<Light(Some("work_light"), Some("off")),
           Light(Some("chamber_light"), Some("off")),
           Light(Some("logo_light"), Some("on"))>>,
         Some(55),
         Some(AmsSummary(<<AmsDetails(Some(0), Some(3)),
                           AmsDetails(Some(2), None)>>, Some(1))))

\* the cached report a patch is merged onto
MergeBases == {None, Some(EmptyReport), Some(FullReport)}

\* patches that change nothing: no "print" key, or an empty "print" mapping
EmptyPatches == {JDict(EmptyDict), JDict([print |-> JDict(EmptyDict)])}

\* caches and printer states to persist and reload
RoundTripValues ==
  {[kind |-> "cache",
    value |-> [print |-> p, last_update |-> lu, last_full_update |-> lf]] :
     p \in MergeBases \cup {SavedCache.print},
     lu \in {None, Some(0), Some(5)}, lf \in {None, Some(0)}}
    \cup {[kind |-> "state", value |-> EmptyState]}
    \cup {[kind |-> "state",
           value |-> [current_job |->
                        Some(PrintJob(du, eta, st, ch[1], ch[2], sm))]] :
            du \in {Minutes(60), Minutes(120)}, eta \in {None, Some(7260)},
            st \in {"running", "paused"},
            ch \in {<<None, None>>, <<PrintNotificationChannel, None>>,
                    <<PrintNotificationChannel, Some("ts1")>>},
            sm \in {None, Some(StartMessage(Minutes(120), 7260))}}

\* the variables of the operations on chosen inputs while none is applied
PureIdle ==
  /\ m_pc = "input"
  /\ m_base = None
  /\ m_patch = JDict(EmptyDict)
  /\ m_merged = None
  /\ m_again = None
  /\ rt_pc = "value"
  /\ rt_orig = [kind |-> "cache", value |-> EmptyCache]
  /\ rt_file = None
  /\ rt_back = None
  /\ headers = None
  /\ created_tasks = 0
  /\ runtime_errors = {}

\* _parse_payload of a message carrying m_patch, with m_base cached
MergePatch ==
  /\ m_pc = "input"
  /\ m_merged' = ParsePayload(m_base, Payload("bytes", TRUE,
                                             Some(JDict([print |-> m_patch]))))
  /\ m_pc' = "merged"
  /\ UNCHANGED <<m_base, m_patch, m_again, rt_pc, rt_orig, rt_file, rt_back,
                 headers>>
  /\ UNCHANGED <<connVars, monVars, jobVars, scopeVars>>

\* _parse_payload of an empty patch, with the merged report cached
MergeEmpty(e) ==
  /\ m_pc = "merged"
  /\ m_merged # None
  /\ m_again' = ParsePayload(m_merged, Payload("bytes", TRUE, Some(e)))
  /\ m_pc' = "remerged"
  /\ UNCHANGED <<m_base, m_patch, m_merged, rt_pc, rt_orig, rt_file, rt_back,
                 headers>>
  /\ UNCHANGED <<connVars, monVars, jobVars, scopeVars>>

MergeNext ==
  \/ MergePatch
  \/ \E e \in EmptyPatches : MergeEmpty(e)

\* json.dumps(unstructure(value)) written to the file
Persist ==
  /\ rt_pc = "value"
  /\ rt_file' = Some(IF rt_orig.kind = "cache"
                     THEN UnstructureCache(rt_orig.value)
                     ELSE UnstructureState(rt_orig.value))
  /\ rt_pc' = "saved"
  /\ UNCHANGED <<m_pc, m_base, m_patch, m_merged, m_again, rt_orig, rt_back,
                 headers>>
  /\ UNCHANGED <<connVars, monVars, jobVars, scopeVars>>

\* structure(json.loads(text)) at the next start; None when it raises
Reload ==
  /\ rt_pc = "saved"
  /\ rt_back' = IF rt_orig.kind = "cache" THEN StructCache(rt_file[1])
                ELSE StructState(rt_file[1])
  /\ rt_pc' = "reloaded"
  /\ UNCHANGED <<m_pc, m_base, m_patch, m_merged, m_again, rt_orig, rt_file,
                 headers>>
  /\ UNCHANGED <<connVars, monVars, jobVars, scopeVars>>

RoundTripNext ==
  \/ Persist
  \/ Reload

Init == ConnInit /\ MonInit /\ JobInit(None) /\ PureIdle

\* one connection with its subscribers
Spec == Init /\ [][ConnNext]_vars

InitMonitor == Init /\ cache_file = None

\* the task group of inner_loop with the tasks of every device
SpecMonitor == InitMonitor /\ [][MonNext]_vars

\* the event loop runs a task whose cancellation was requested: cancel()
\* schedules its wake-up, and __aexit__ yields to the loop when it awaits the
\* exit stack
\* well-formed JSON objects without the key "print": an empty object, a
\* reply to another command
KeylessPayloads ==
  { Payload("bytes", TRUE, Some(JDict(EmptyDict))),
    Payload("str", TRUE,
            Some(JDict([info |-> JDict([command |-> JStr("get_version")])]))) }

\* the connection receiving such messages among ordinary patches
KeylessNext ==
  \/ Enter
  \/ EnterRaises
  \/ ConsumeStart
  \/ Connected
  \/ TopicSubscribed
  \/ \E p \in KeylessPayloads \cup {Payload("bytes", TRUE, Some(PatchRunning))} :
       Receive(p)
  \/ \E s \in Subs : Subscribe(s)
  \/ \E s \in Subs : Get(s)

SpecKeyless == Init /\ [][KeylessNext]_vars

ExitNext ==
  \/ Enter
  \/ ConsumeStart
  \/ Connected
  \/ TopicSubscribed
  \/ \E p \in Payloads : Receive(p)
  \/ \E e \in {"MqttError", "Exception"} : ConsumeRaises(e)
  \/ BackoffDone
  \/ \E how \in ExitPaths : Exit(how)
  \/ ConsumeCancelled
  \/ WriteCache
  \/ \E s \in Subs : Subscribe(s)
  \/ \E s \in Subs : Get(s)

SpecExit == InitMonitor /\ [][ExitNext]_vars /\ WF_vars(ConsumeCancelled)

InitJob ==
  /\ ConnInit
  /\ cache_file = None
  /\ MonInit
  /\ \E file \in StateFiles : JobInit(file)
  /\ PureIdle

\* the job tracking of one device, fed any sequence of reports
SpecJob == InitJob /\ [][JobNext]_vars

ScopeNext ==
  \/ Enter
  \/ EnterRaises
  \/ EnterAgain
  \/ ExitNotEntered
  \/ ConsumeStart
  \/ Connected
  \/ TopicSubscribed
  \/ \E p \in Payloads : Receive(p)
  \/ \E e \in {"MqttError", "Exception"} : ConsumeRaises(e)
  \/ BackoffDone
  \/ \E how \in ExitPaths : Exit(how)
  \/ ConsumeCancelled
  \/ WriteCache

\* one connection object whose __aenter__ and __aexit__ are called in any
\* order, without subscribers
SpecScope == Init /\ [][ScopeNext]_vars

\* the discovery protocol object, fed any sequence of advertisements
SpecDiscovery == InitMonitor /\ [][DiscoveryNext]_vars

InitMerge ==
  /\ ConnInit
  /\ cache_file = None
  /\ MonInit
  /\ JobInit(None)
  /\ m_pc = "input"
  /\ m_base \in MergeBases
  /\ m_patch \in PrintPatches
  /\ m_merged = None
  /\ m_again = None
  /\ rt_pc = "value"
  /\ rt_orig = [kind |-> "cache", value |-> EmptyCache]
  /\ rt_file = None
  /\ rt_back = None
  /\ headers = None
  /\ created_tasks = 0
  /\ runtime_errors = {}

\* a patch merged onto a cached report, then an empty patch onto the result
SpecMerge == InitMerge /\ [][MergeNext]_vars

InitRoundTrip ==
  /\ ConnInit
  /\ cache_file = None
  /\ MonInit
  /\ JobInit(None)
  /\ m_pc = "input"
  /\ m_base = None
  /\ m_patch = JDict(EmptyDict)
  /\ m_merged = None
  /\ m_again = None
  /\ rt_pc = "value"
  /\ rt_orig \in RoundTripValues
  /\ rt_file = None
  /\ rt_back = None
  /\ headers = None
  /\ created_tasks = 0
  /\ runtime_errors = {}

\* a cache or a printer state written to its file and read back
SpecRoundTrip == InitRoundTrip /\ [][RoundTripNext]_vars

(***************************************************************************)
(* Properties of the connection and its subscribers                        *)
(***************************************************************************)
\* the publish numbers of a sequence of queue items
Ids(items) == [i \in DOMAIN items |-> items[i].id]

\* the number of reports published when the registration of s ended (or now)
RegEnd(s) ==
  CASE subPc[s] = "idle" -> regAt[s]
    [] subPc[s] = "subscribed" -> Len(published)
    [] subPc[s] = "closed" -> unregAt[s]

\* C1: every report published while a subscription is registered is placed
\* in its queue exactly once, and no report published before it registered
\* or after it unregistered is placed there.
C1_ExactlyOnceWhileRegistered ==
  \A s \in Subs :
    /\ delivered[s] = [i \in 1..(RegEnd(s) - regAt[s]) |-> regAt[s] + i]
    /\ Ids(seen[s] \o pending[s]) = delivered[s]

C1_Witness ==
  \E s, u \in Subs :
    /\ subPc[s] = "closed" /\ delivered[s] # <<>> /\ unregAt[s] < Len(published)
    /\ subPc[u] = "subscribed" /\ regAt[u] > 0 /\ delivered[u] # <<>>

\* C2: each subscriber takes reports out of its queue in the order they were
\* merged: what it has seen is a subsequence of the published sequence.
C2_SeenInMergeOrder ==
  \A s \in Subs :
    /\ \A i, j \in DOMAIN seen[s] : i < j => seen[s][i].id < seen[s][j].id
    /\ \A i \in DOMAIN seen[s] :
         /\ seen[s][i].id \in DOMAIN published
         /\ seen[s][i].print = published[seen[s][i].id]

C2_Witness == \A s \in Subs : Len(seen[s]) >= 2

\* C3: publishing never blocks and is isolated per subscriber: a message can
\* be received whatever is pending in the queues, and a parsed report is
\* appended to the queue of every registered subscriber whose queue is not
\* full, while a full queue alone is left as it is.
C3_PublishIsolated ==
  /\ [](consume_task = "receiving" /\ nMsgs < MaxMsgs
          => ENABLED (\E p \in Payloads : Receive(p)))
  /\ [][published' # published =>
          \A s \in Subs :
            IF s \in Range(queues) /\ ~Full(pending[s])
            THEN pending'[s] =
                   Append(pending[s], [id |-> Len(published'),
                                       print |-> published'[Len(published')]])
            ELSE pending'[s] = pending[s]]_vars

C3_Witness ==
  \E s, u \in Subs :
    /\ subPc[s] = "subscribed" /\ seen[s] = <<>> /\ Len(pending[s]) >= 2
    /\ subPc[u] = "subscribed" /\ Len(seen[u]) >= 2 /\ regAt[u] >= regAt[s]

\* C4: the number of reports pending in a subscriber's queue stays below a
\* fixed capacity, however many reports the connection publishes while the
\* subscriber does not consume.
C4_QueueBounded == \A s \in Subs : Len(pending[s]) < MaxMsgs

\* C5: a subscription starts with an empty queue and never holds a report
\* published before it registered.
C5_NoReplay ==
  /\ [](\A s \in Subs :
          \A i \in DOMAIN (seen[s] \o pending[s]) :
            (seen[s] \o pending[s])[i].id > regAt[s])
  /\ [][\A s \in Subs :
          subPc[s] = "idle" /\ subPc'[s] = "subscribed"
            => pending'[s] = <<>> /\ seen'[s] = <<>>]_vars

C5_Witness ==
  \E s \in Subs :
    /\ subPc[s] = "subscribed" /\ regAt[s] > 0 /\ cache.print # None
    /\ pending[s] = <<>> /\ seen[s] = <<>>

\* the cached report after merging the payloads ps[i..] onto printOpt
RECURSIVE FoldPatches(_, _, _)
FoldPatches(printOpt, ps, i) ==
  IF i > Len(ps) THEN printOpt
  ELSE FoldPatches(ParsePayload(printOpt, ps[i]), ps, i + 1)

\* C6: the cached report is the merge, in arrival order, of every parsed
\* patch onto the loaded report: it is the loaded report when the scope is
\* entered, it is that merge whenever a patch was parsed, and it changes at
\* no other step; every report pushed equals the cached report at that
\* moment.
C6_CacheIsMergeOfPatches ==
  [][/\ scope = "new" => cache' = loaded' /\ patches' = <<>>
     /\ scope # "new" =>
          /\ loaded' = loaded
          /\ patches' # patches =>
               /\ Len(patches') = Len(patches) + 1
               /\ cache'.print = FoldPatches(loaded.print, patches', 1)
          /\ cache' # cache => patches' # patches
     /\ published' # published =>
          /\ patches' # patches
          /\ cache'.print = Some(published'[Len(published')])
          /\ \A s \in Subs :
               pending'[s] # pending[s] =>
                 pending'[s][Len(pending'[s])].print = cache'.print[1]]_vars

C6_Witness ==
  /\ Len(patches) >= 2
  /\ loaded.print # None
  /\ cache.print # loaded.print
  /\ \E s \in Subs : pending[s] # <<>>

\* C7: a message that cannot be decoded, parsed or structured is dropped:
\* the cache is unchanged, nothing is pushed, no error leaves the loop and
\* the loop goes on to the next message.
C7_BadMessageDropped ==
  [][(nMsgs' = nMsgs + 1 /\ lastBad') =>
       /\ cache' = cache
       /\ pending' = pending
       /\ published' = published
       /\ raised' = raised
       /\ consume_task' = "receiving"]_vars

C7_Witness ==
  /\ lastBad
  /\ cache.print # None
  /\ cache.last_update # Some(clock)
  /\ \E s \in Subs : subPc[s] = "subscribed"

\* C8: a transport error is followed by exactly one backoff sleep and then
\* by a fresh client; this repeats for every transport error, and the loop
\* never ends because of one.
C8_BackoffThenReconnect ==
  /\ [](/\ consume_task \in {"connecting", "subscribing", "receiving"}
             => nClients = nSleeps + 1
        /\ consume_task = "backoff" => nClients = nSleeps
        /\ consume_task = "failed" => raised # Some("MqttError"))
  /\ [][/\ (nErrors' = nErrors + 1 /\ raised' = Some("MqttError"))
             => consume_task' = "backoff" /\ nSleeps' = nSleeps + 1
        /\ (consume_task = "backoff" /\ consume_task' # "backoff")
             => /\ nSleeps' = nSleeps
                /\ \/ consume_task' = "cancelling"
                   \/ consume_task' = "connecting" /\ nClients' = nClients + 1]_vars

C8_Witness == nSleeps >= 2 /\ nClients >= 3 /\ consume_task = "receiving"

\* C9: the cache file is not written while the connection is in session and
\* is written exactly once when the scope is left, on every exit path; the
\* content is the in-memory cache at teardown (the last merged report).
C9_CacheSavedOnceAtExit ==
  /\ [](/\ scope \in {"new", "entered"} => writes = 0
        /\ scope = "exiting" =>
             /\ writes = 0
             /\ serialized = Some(UnstructureCache(cache))
        /\ scope = "exited" =>
             /\ writes = 1
             /\ cache_file = Some(UnstructureCache(cache))
             /\ cache.print = IF published = <<>> THEN loaded.print
                              ELSE Some(published[Len(published)]))
  /\ [][(cache_file' # cache_file \/ writes' # writes) =>
          scope = "exiting" /\ scope' = "exited"]_vars

C9_Witness ==
  /\ scope = "exited"
  /\ consume_task = "cancelled"
  /\ published # <<>>
  /\ cache_file # None
  /\ StructCache(cache_file[1]) = Some(cache)
  /\ writes = 1

(***************************************************************************)
(* Properties of the task group                                            *)
(***************************************************************************)
\* C10: a failure of one device's task never cancels or ends a task of
\* another device or the monitoring loop: unless the exit signal came, the
\* loop keeps waiting for devices, and no task is cancelled on a device
\* none of whose own tasks has failed.
C10_DevicesIsolated ==
  /\ \A d \in Devices :
       (\E r \in Roles : tasks[d][r] \in {"cancelling", "cancelled"})
         => (signalled \/ \E r \in Roles : tasks[d][r] = "failed")
  /\ inner # "waiting" => signalled

(***************************************************************************)
(* Properties of the print-job state machine                               *)
(***************************************************************************)
\* a step that takes the next report from the subscription
Taken == nReports' = nReports + 1

\* a step in which the handler of the current report returns
Handled == jobPc = "update" /\ jobPc' = "waiting"

\* the tracked job before the step, and the report the step is about
JobBefore == state.current_job

Running(job) == job # None /\ job[1].state = "running"

Paused(job) == job # None /\ job[1].state = "paused"

\* the Slack calls of a sequence that carry a message of the given kind
CallsOfKind(cs, kind) == {i \in DOMAIN cs : cs[i].kind = kind}

\* the calls of a sequence made through the given function
CallsOfFn(cs, fn) == {i \in DOMAIN cs : cs[i].fn = fn}

\* C11: a RUNNING report with a remaining time, taken while no job is
\* tracked, starts _job_started; when it has been processed a job exists in
\* state running whose duration is the remaining time in minutes, and the
\* start notification was posted to the channel exactly once and nothing
\* else was sent.
C11_JobCreatedOnRunning ==
  [][/\ (Taken /\ JobBefore = None
         /\ job_report'[1].gcode_state = Some("RUNNING")
         /\ job_report'[1].mc_remaining_time # None)
          => (jobPc' = "update" /\ calls' = <<>>)
     /\ (Handled /\ JobBefore = None)
          => /\ job_report[1].gcode_state = Some("RUNNING")
             /\ Running(state'.current_job)
             /\ state'.current_job[1].duration
                  = 60 * job_report[1].mc_remaining_time[1]
             /\ Len(calls') = 1
             /\ calls'[1].fn = "post_to_channel"
             /\ calls'[1].kind = "started"]_vars

C11_Witness ==
  /\ jobPc = "waiting"
  /\ job_report = Some(Snapshot(Some("RUNNING"), Some(120), None))
  /\ Len(calls) = 1
  /\ calls[1].kind = "started"
  /\ Running(state.current_job)
  /\ state.current_job[1].duration = 7200
  /\ state_file = None

\* the job is the same job: what identifies it is untouched
SameJob(a, b) ==
  /\ a # None /\ b # None
  /\ a[1].duration = b[1].duration
  /\ a[1].slack_channel = b[1].slack_channel
  /\ a[1].slack_thread_ts = b[1].slack_thread_ts
  /\ a[1].start_message = b[1].start_message

\* C12: a PAUSE report taken while the tracked job is running starts
\* _job_paused; when it has been processed the job is paused, its ETA is
\* empty, and it is still the same job.
C12_PausedClearsEta ==
  [][/\ (Taken /\ Running(JobBefore)
         /\ job_report'[1].gcode_state = Some("PAUSE"))
          => jobPc' = "update"
     /\ (Handled /\ Running(JobBefore)
         /\ job_report[1].gcode_state = Some("PAUSE"))
          => /\ Paused(state'.current_job)
             /\ state'.current_job[1].eta = None
             /\ SameJob(JobBefore, state'.current_job)]_vars

C12_Witness ==
  /\ jobPc = "waiting"
  /\ job_report # None
  /\ job_report[1].gcode_state = Some("PAUSE")
  /\ calls # <<>>
  /\ Paused(state.current_job)
  /\ state.current_job[1].eta = None
  /\ state.current_job[1].duration = 7200
  /\ nReports = 2

\* C13 as stated: processing a PAUSE report for a running job makes exactly
\* one call to Slack, with or without a thread handle.
C13_OneCallOnPause ==
  [][(Handled /\ Running(JobBefore)
      /\ job_report[1].gcode_state = Some("PAUSE")) => Len(calls') = 1]_vars

\* C13: processing a PAUSE report for a running job makes one update: without
\* a thread handle exactly one post to the channel; with a thread handle one
\* reply to the thread and one edit of the start message, in that order, with
\* one post to the channel between them exactly when the reply failed. Every
\* call carries the paused message.
C13_OneUpdateOnPause ==
  [][(Handled /\ Running(JobBefore)
      /\ job_report[1].gcode_state = Some("PAUSE")) =>
       /\ \A i \in DOMAIN calls' : calls'[i].kind = "paused"
       /\ IF JobBefore[1].slack_thread_ts = None
          THEN Len(calls') = 1 /\ calls'[1].fn = "post_to_channel"
          ELSE /\ calls'[1].fn = "post_to_thread"
               /\ calls'[Len(calls')].fn = "edit_message"
               /\ IF calls'[1].outcome = "error"
                  THEN Len(calls') = 3 /\ calls'[2].fn = "post_to_channel"
                  ELSE Len(calls') = 2]_vars

C13_Witness ==
  /\ jobPc = "waiting"
  /\ job_report # None
  /\ job_report[1].gcode_state = Some("PAUSE")
  /\ Paused(state.current_job)
  /\ state.current_job[1].slack_thread_ts # None
  /\ Len(calls) = 3
  /\ calls[1].outcome = "error"
  /\ calls[3].fn = "edit_message"

\* C14: a RUNNING report with a remaining time, taken while the tracked job
\* is paused, starts _job_resumed; when it has been processed the job is
\* running, its ETA is the time of the report plus the new remaining time, a
\* resumed notification was sent and no start notification, and the job is
\* still the same job.
C14_ResumedNewEta ==
  [][/\ (Taken /\ Paused(JobBefore)
         /\ job_report'[1].gcode_state = Some("RUNNING")
         /\ job_report'[1].mc_remaining_time # None)
          => jobPc' = "update"
     /\ (Handled /\ Paused(JobBefore)
         /\ job_report[1].gcode_state = Some("RUNNING"))
          => /\ Running(state'.current_job)
             /\ state'.current_job[1].eta
                  = Some(job_now + 60 * job_report[1].mc_remaining_time[1])
             /\ SameJob(JobBefore, state'.current_job)
             /\ calls' # <<>>
             /\ \A i \in DOMAIN calls' : calls'[i].kind = "resumed"]_vars

C14_Witness ==
  /\ jobPc = "waiting"
  /\ job_report = Some(Snapshot(Some("RUNNING"), Some(60), None))
  /\ calls # <<>>
  /\ calls[1].kind = "resumed"
  /\ Running(state.current_job)
  /\ state.current_job[1].duration = 7200
  /\ state.current_job[1].eta = Some(job_now + 3600)
  /\ nReports = 3

\* the tracked job before the step is any job, running or paused
Tracked(job) == Running(job) \/ Paused(job)

\* C15: a FINISH report taken while a job is tracked (running or paused)
\* starts _job_completed; when it has been processed the finished
\* notification was sent and no job is tracked.
C15_FinishClearsJob ==
  [][/\ (Taken /\ Tracked(JobBefore)
         /\ job_report'[1].gcode_state = Some("FINISH"))
          => jobPc' = "update"
     /\ (Handled /\ Tracked(JobBefore)
         /\ job_report[1].gcode_state = Some("FINISH"))
          => /\ state'.current_job = None
             /\ calls' # <<>>
             /\ \A i \in DOMAIN calls' : calls'[i].kind = "finished"]_vars

C15_Witness ==
  /\ jobPc = "waiting"
  /\ job_report # None
  /\ job_report[1].gcode_state = Some("FINISH")
  /\ calls # <<>>
  /\ calls[1].kind = "finished"
  /\ state.current_job = None
  /\ state_file = Some(UnstructureState([current_job |-> Some(SavedPausedJob)]))

\* the codes of the claim's user-cancelled set
UserCancelled(r) ==
  r.print_error \in {Some(50348044), Some(83902478)}

\* C16: a FAILED report taken while a job is tracked starts _job_failed; when
\* it has been processed no job is tracked, and every message sent is of one
\* kind: the cancelled message if and only if the error code is a user
\* cancellation, otherwise the failure message, whose posts carry the
\* decoded error.
C16_FailedOrCancelled ==
  [][/\ (Taken /\ Tracked(JobBefore)
         /\ job_report'[1].gcode_state = Some("FAILED"))
          => jobPc' = "update"
     /\ (Handled /\ Tracked(JobBefore)
         /\ job_report[1].gcode_state = Some("FAILED"))
          => /\ state'.current_job = None
             /\ calls' # <<>>
             /\ \A i \in DOMAIN calls' :
                  IF UserCancelled(job_report[1])
                  THEN calls'[i].kind = "cancelled"
                  ELSE /\ calls'[i].kind = "failed"
                       /\ calls'[i].fn # "edit_message" =>
                            calls'[i].detail
                              = Some(parse_error_code(job_report[1].print_error))
     ]_vars

C16_Witness ==
  /\ jobPc = "waiting"
  /\ job_report # None
  /\ job_report[1].gcode_state = Some("FAILED")
  /\ job_report[1].print_error = Some(50348044)
  /\ calls # <<>>
  /\ calls[1].kind = "cancelled"
  /\ state.current_job = None

\* C17: an IDLE report taken while a job is tracked (running or paused)
\* starts _job_tracking_lost; when it has been processed the tracking-lost
\* notification was sent and no job is tracked.
C17_IdleLosesTracking ==
  [][/\ (Taken /\ Tracked(JobBefore)
         /\ job_report'[1].gcode_state = Some("IDLE"))
          => jobPc' = "update"
     /\ (Handled /\ Tracked(JobBefore)
         /\ job_report[1].gcode_state = Some("IDLE"))
          => /\ state'.current_job = None
             /\ calls' # <<>>
             /\ \A i \in DOMAIN calls' : calls'[i].kind = "tracking_lost"]_vars

C17_Witness ==
  /\ jobPc = "waiting"
  /\ job_report # None
  /\ job_report[1].gcode_state = Some("IDLE")
  /\ calls # <<>>
  /\ calls[1].kind = "tracking_lost"
  /\ state.current_job = None
  /\ nReports = 2

\* the pairs of the claim that are outside the six rows of the table
NoOpPair(job, gs) ==
  \/ job = None /\ gs # Some("RUNNING")
  \/ Running(job) /\ gs = Some("RUNNING")
  \/ Paused(job) /\ gs = Some("PAUSE")
  \/ Tracked(job)
       /\ gs \notin {Some("RUNNING"), Some("PAUSE"), Some("FINISH"),
                     Some("FAILED"), Some("IDLE")}

\* C18: a report whose (job, gcode_state) pair is outside the six rows is a
\* no-op: taking it leaves the PrinterState unchanged, calls no Slack
\* function, raises nothing, and the task goes on to wait for the next
\* report.
C18_OtherPairsNoOp ==
  [][(Taken /\ NoOpPair(JobBefore, job_report'[1].gcode_state))
       => /\ state' = state
          /\ calls' = <<>>
          /\ jobPc' = "waiting"
          /\ jobRaised' = jobRaised
          /\ state_file' = state_file]_vars

C18_Witness ==
  /\ jobPc = "waiting"
  /\ nReports = 2
  /\ job_report = Some(Snapshot(Some("RUNNING"), None, None))
  /\ calls = <<>>
  /\ Running(state.current_job)
  /\ state.current_job[1].eta = Some(7260)

\* what the table prescribes for the tracked job, whatever Slack did
TableJobOk(before, r, after, t) ==
  CASE r.gcode_state = Some("RUNNING") /\ before = None ->
         /\ Running(after)
         /\ after[1].duration = 60 * r.mc_remaining_time[1]
         /\ after[1].eta = Some(t + 60 * r.mc_remaining_time[1])
    [] r.gcode_state = Some("RUNNING") /\ before # None ->
         /\ Running(after)
         /\ SameJob(before, after)
         /\ after[1].eta = Some(t + 60 * r.mc_remaining_time[1])
    [] r.gcode_state = Some("PAUSE") ->
         Paused(after) /\ SameJob(before, after) /\ after[1].eta = None
    [] r.gcode_state \in {Some("FINISH"), Some("FAILED"), Some("IDLE")} ->
         after = None

\* C19: when every Slack call of a transition raises, the handler still
\* returns with the tracked job the table prescribes (created on start,
\* paused or running on pause and resume, cleared on finish, failed and
\* idle), no exception is left unwinding the task, and the task goes on to
\* wait for the next report; no Slack call, failed or not, stops the task.
C19_SinkFailureKeepsTransition ==
  [][/\ (Handled /\ \A i \in DOMAIN calls' : calls'[i].outcome = "error")
          => /\ TableJobOk(JobBefore, job_report[1], state'.current_job,
                           job_now)
             /\ jobRaised' = None
     /\ Len(calls') = Len(calls) + 1
          => /\ jobPc' \in {"update", "waiting"}
             /\ jobRaised' = None]_vars

\* the start post failed (the job has no channel), and the PAUSE report
\* that followed was handled although its post failed too
C19_Witness ==
  /\ jobPc = "waiting"
  /\ nReports = 2
  /\ state_file = None
  /\ job_report # None
  /\ job_report[1].gcode_state = Some("PAUSE")
  /\ Len(calls) = 1
  /\ calls[1].outcome = "error"
  /\ Paused(state.current_job)
  /\ state.current_job[1].slack_channel = None

\* the PrinterState the state file holds; no file stands for the empty state
DiskState ==
  IF state_file = None THEN Some(EmptyState) ELSE StructState(state_file[1])

C21_CancelSavesAndReraises ==
  [][/\ (jobRaised # Some("CancelledError")
         /\ jobRaised' = Some("CancelledError"))
          => /\ jobPc' = "saving"
             /\ job_serialized' = Some(UnstructureState(state))
     /\ (jobPc = "saving" /\ jobRaised = Some("CancelledError")
         /\ jobPc' # "saving")
          => /\ jobPc' = "raised"
             /\ state_file' = Some(UnstructureState(state))]_vars
(***************************************************************************)
(* Claims about the merge                                                  *)
(***************************************************************************)
\* the report a merge starts from: the defaults when nothing is cached
MergeBase == IF m_base = None THEN EmptyReport ELSE m_base[1]

ReportFields == DOMAIN EmptyReport

\* C22: every field the patch does not contain has the value of the base
\* report after the merge, and merging an empty patch onto the merged report
\* gives the merged report again.
C22_MissingFieldsKept ==
  /\ (m_pc # "input" /\ m_merged # None)
       => \A f \in ReportFields :
            f \notin DOMAIN m_patch.d => m_merged[1][f] = MergeBase[f]
  /\ m_pc = "remerged" => m_again = m_merged

C22_Witness ==
  /\ m_pc = "remerged"
  /\ m_base = Some(FullReport)
  /\ DOMAIN m_patch.d = {"gcode_state", "bed_temper"}
  /\ m_merged # None
  /\ m_merged[1].gcode_state = Some("RUNNING")
  /\ m_merged[1].mc_remaining_time = Some(30)
  /\ m_merged[1].lights_report = FullReport.lights_report
  /\ m_merged[1].ams = FullReport.ams
  /\ m_again = m_merged

\* the list of AMS units of a report: a plain list field
AmsList(r) == IF r.ams = None THEN <<>> ELSE r.ams[1].ams

\* the patch gives the list of AMS units
PatchHasAmsList ==
  /\ "ams" \in DOMAIN m_patch.d
  /\ "ams" \in DOMAIN m_patch.d["ams"].d

PatchAmsList ==
  LET pl == m_patch.d["ams"].d["ams"].l
  IN [i \in DOMAIN pl |-> StructAmsDetails(pl[i])[1]]

\* C23: a non-empty plain list in the patch replaces the base list wholesale;
\* an empty list in the patch leaves the base list as it was.
C23_PlainListReplacedUnlessEmpty ==
  (m_pc # "input" /\ PatchHasAmsList)
    => /\ m_merged # None
       /\ AmsList(m_merged[1]) =
            IF PatchAmsList # <<>> THEN PatchAmsList ELSE AmsList(MergeBase)

C23_Witness ==
  /\ m_pc = "merged"
  /\ m_base = Some(FullReport)
  /\ PatchHasAmsList
  /\ PatchAmsList = <<AmsDetails(Some(1), None)>>
  /\ AmsList(m_merged[1]) = <<AmsDetails(Some(1), None)>>
  /\ Len(AmsList(FullReport)) = 2

\* the lights of the patch, structured
PatchLightList ==
  LET pl == m_patch.d["lights_report"].l
  IN [i \in DOMAIN pl |-> StructLight(pl[i])[1]]

Nodes(lights) == {lights[i].node : i \in DOMAIN lights}

\* C24: in the keyed list of lights, a base item whose key is in the patch is
\* replaced in place by the patch item, a base item whose key is not in the
\* patch stays where it was, and the patch items with new keys follow all
\* base items in the order of the patch.
C24_KeyedListMerged ==
  (m_pc # "input" /\ "lights_report" \in DOMAIN m_patch.d)
    => /\ m_merged # None
       /\ LET B == MergeBase.lights_report
              P == PatchLightList
              M == m_merged[1].lights_report
              new == SelectSeq(P, LAMBDA it : it.node \notin Nodes(B))
          IN /\ Len(M) = Len(B) + Len(new)
             /\ \A i \in DOMAIN B :
                  M[i] = IF B[i].node \in Nodes(P)
                         THEN CHOOSE it \in Range(P) : it.node = B[i].node
                         ELSE B[i]
             /\ \A i \in DOMAIN new : M[Len(B) + i] = new[i]

C24_Witness ==
  /\ m_pc = "merged"
  /\ m_base = Some(FullReport)
  /\ "lights_report" \in DOMAIN m_patch.d
  /\ m_merged # None
  /\ m_merged[1].lights_report =
       <<Light(Some("work_light"), Some("off")),
         Light(Some("chamber_light"), Some("on")),
         Light(Some("logo_light"), Some("on")),
         Light(Some("side_light"), Some("flashing"))>>
\* rounding of a value given in tenths to the nearest integer, a tie upwards
RoundHalfUp(x10) ==
  IF x10 % 10 >= 5 THEN (x10 \div 10) + 1 ELSE x10 \div 10

\* C25: a bed temperature given as a float is stored rounded to the nearest
\* integer with a tie n + 0.5 stored as n + 1, for even and for odd n; a
\* temperature absent from the patch and from the base stays absent.
C25_TemperatureRoundedHalfUp ==
  (m_pc # "input" /\ m_merged # None)
    => IF "bed_temper" \in DOMAIN m_patch.d
       THEN LET v == m_patch.d["bed_temper"]
            IN m_merged[1].bed_temper =
                 Some(IF v.t = "float" THEN RoundHalfUp(v.x10) ELSE v.n)
       ELSE MergeBase.bed_temper = None => m_merged[1].bed_temper = None
(***************************************************************************)
(* Claims about the cache file and the state file                          *)
(***************************************************************************)
\* C26: entering the connection with no cache file or with a cache file
\* that cannot be loaded starts the connection with an empty cache: the scope
\* is entered and the consume task is started.
C26_CacheLoadFailsSoft ==
  [][(scope = "new" /\ scope' # "new"
      /\ (IF cache_file = None THEN TRUE
          ELSE StructCache(cache_file[1]) = None))
       => /\ scope' = "entered"
          /\ cache' = EmptyCache
          /\ consume_task' = "start"]_vars
\* C27: a cache or a printer state written to its file and read back at the
\* next start is equal to the value that was written, for every combination
\* of present and absent fields.
C27_RoundTrip ==
  /\ rt_pc # "value" =>
       rt_file = Some(IF rt_orig.kind = "cache"
                      THEN UnstructureCache(rt_orig.value)
                      ELSE UnstructureState(rt_orig.value))
  /\ rt_pc = "reloaded" => rt_back = Some(rt_orig.value)

C27_Witness ==
  /\ rt_pc = "reloaded"
  /\ rt_orig.kind = "state"
  /\ rt_orig.value.current_job # None
  /\ rt_orig.value.current_job[1].eta = None
  /\ rt_orig.value.current_job[1].slack_thread_ts # None
  /\ rt_back = Some(rt_orig.value)
(***************************************************************************)
(* Claims about discovery                                                  *)
(***************************************************************************)
\* the advertisement lacks the address or the identifier, or is not of the
\* printer type
Unusable(h) ==
  \/ h.NT # Some(PrinterNT)
  \/ ~Truthy(h.Location)
  \/ ~Truthy(h.USN)

\* C28: the discovered-device queue receives each device identifier at most
\* once, and handling an advertisement that lacks the address or the
\* identifier or is not of the printer type puts nothing on the queue.
C28_OneDescriptorPerId ==
  /\ [](/\ \A i, j \in DOMAIN device_queue :
              device_queue[i] = device_queue[j] => i = j
        /\ found_ids = Range(device_queue))
  /\ [][/\ device_queue' # device_queue =>
              /\ headers' # None
              /\ ~Unusable(headers'[1])
              /\ headers'[1].USN[1] \notin found_ids
              /\ device_queue' = Append(device_queue, headers'[1].USN[1])
        /\ (headers' # None /\ headers' # headers /\ Unusable(headers'[1]))
              => device_queue' = device_queue]_vars

C28_Witness ==
  /\ device_queue = <<"printerA", "printerB">>
  /\ headers = Some(Headers(Some(PrinterNT), Some("10.0.0.2"),
                            Some("printerA"), None))
(***************************************************************************)
(* Claims about the life of a tracked job                                  *)
(***************************************************************************)
\* the step makes a Slack call that carries the start notification
StartPosted ==
  /\ Len(calls') = Len(calls) + 1
  /\ calls'[Len(calls')].kind = "started"

\* C29: once the state is loaded, a job appears only when the handler of a
\* RUNNING report taken with no job returns, and in that very step the start
\* notification is posted, once; a start notification is posted in no other
\* step, so the start notifications are as many as the transitions from no
\* job to a job. A job disappears only when the handler of a FINISH, FAILED
\* or IDLE report returns, and in every other step a tracked job stays the
\* same job.
C29_JobLifecycle ==
  [][jobPc # "start" =>
       /\ (state.current_job = None /\ state'.current_job # None)
            => /\ Handled
               /\ job_report[1].gcode_state = Some("RUNNING")
               /\ StartPosted
               /\ Cardinality(CallsOfKind(calls', "started")) = 1
       /\ StartPosted
            => state.current_job = None /\ state'.current_job # None
       /\ (state.current_job # None /\ state'.current_job = None)
            => /\ Handled
               /\ job_report[1].gcode_state
                    \in {Some("FINISH"), Some("FAILED"), Some("IDLE")}
       /\ (state.current_job # None /\ state'.current_job # None)
            => SameJob(state.current_job, state'.current_job)]_vars

\* a job was started, paused and resumed by a RUNNING report with another
\* remaining time: it is still the job of the first report
C29_Witness ==
  /\ jobPc = "waiting"
  /\ nReports = 3
  /\ state_file = None
  /\ job_report = Some(Snapshot(Some("RUNNING"), Some(60), None))
  /\ Running(state.current_job)
  /\ state.current_job[1].duration = 7200
  /\ CallsOfKind(calls, "started") = {}
  /\ calls # <<>>
\* an exception other than a cancellation is recorded for the task
ErrorRaised == jobRaised # None /\ jobRaised # Some("CancelledError")

\* C30: an exception other than a cancellation (the state file does not
\* load or cannot be written, subscribing fails, a handler's assertion
\* fails) never leaves monitor_printer_status: the task is then in its
\* finally block or has returned normally, and once it has such an exception
\* it takes no further report and ends by returning.
C30_ErrorsEndInReturn ==
  /\ [](/\ ErrorRaised => jobPc \in {"saving", "returned"}
        /\ jobPc = "raised" => jobRaised = Some("CancelledError"))
  /\ [][ErrorRaised =>
          /\ jobPc' \in {jobPc, "returned"}
          /\ nReports' = nReports
          /\ calls' = calls]_vars

\* the assertion of a handler failed on the second report: the state was
\* saved and the task returned
C30_Witness ==
  /\ jobPc = "returned"
  /\ jobRaised = Some("AssertionError")
  /\ nReports = 2
  /\ state_writes = 1
  /\ state.current_job # None
(***************************************************************************)
(* Claims about the calls of an update and the state after a report        *)
(***************************************************************************)
\* the functions of the calls, in the order they were made
CallFns(cs) == [i \in DOMAIN cs |-> cs[i].fn]

\* C31: the handler of any update (pause, resume, finish, failure, tracking
\* lost) calls Slack in a fixed pattern: for a job without a thread handle
\* one post to the channel and nothing else; for a job with a thread handle a
\* reply to the thread first, a post to the channel next exactly when the
\* reply failed, and the edit of the start message last in every case,
\* whether the reply or the fallback post failed or not.
C31_UpdatePattern ==
  [][(Handled /\ JobBefore # None) =>
       IF JobBefore[1].slack_thread_ts = None
       THEN CallFns(calls') = <<"post_to_channel">>
       ELSE IF calls'[1].outcome = "error"
       THEN CallFns(calls')
              = <<"post_to_thread", "post_to_channel", "edit_message">>
       ELSE CallFns(calls') = <<"post_to_thread", "edit_message">>]_vars

\* a FINISH report for a job with a thread: the reply failed, the fallback
\* post failed too, and the edit was still made
C31_Witness ==
  /\ jobPc = "waiting"
  /\ job_report # None
  /\ job_report[1].gcode_state = Some("FINISH")
  /\ state.current_job = None
  /\ CallFns(calls) = <<"post_to_thread", "post_to_channel", "edit_message">>
  /\ calls[1].outcome = "error"
  /\ calls[2].outcome = "error"
  /\ calls[3].outcome = "ok"
\* base and patch both hold the summary of the AMS, a nested object
BothHoldAms == MergeBase.ams # None /\ "ams" \in DOMAIN m_patch.d

\* the value the patch gives a sub-field of the summary, structured
PatchAmsField(sub) ==
  IF sub = "ams" THEN PatchAmsList
  ELSE StructInt(m_patch.d["ams"].d[sub])[1]

\* C32 as stated: when base and patch both hold the nested object, every
\* sub-field the patch gives has the value of the patch after the merge and
\* every other sub-field has the value of the base.
C32_NestedTakesPatchValue ==
  (m_pc # "input" /\ BothHoldAms)
    => /\ m_merged # None
       /\ m_merged[1].ams # None
       /\ \A sub \in {"ams", "tray_now"} :
            m_merged[1].ams[1][sub] =
              IF sub \in DOMAIN m_patch.d["ams"].d THEN PatchAmsField(sub)
              ELSE MergeBase.ams[1][sub]

\* C32: when base and patch both hold the nested object, it is merged
\* sub-field by sub-field: a sub-field absent from the patch keeps the value
\* of the base, a sub-field the patch gives has the value of the patch,
\* except a list sub-field given as an empty list, which keeps the list of
\* the base; the nested object is never replaced wholesale.
C32_NestedMergedFieldwise ==
  (m_pc # "input" /\ BothHoldAms)
    => /\ m_merged # None
       /\ m_merged[1].ams # None
       /\ \A sub \in {"ams", "tray_now"} :
            m_merged[1].ams[1][sub] =
              IF sub \in DOMAIN m_patch.d["ams"].d
                 /\ ~(sub = "ams" /\ PatchAmsList = <<>>)
              THEN PatchAmsField(sub)
              ELSE MergeBase.ams[1][sub]

\* the patch gave the tray only: the units of the base are still there
C32_Witness ==
  /\ m_pc = "merged"
  /\ m_base = Some(FullReport)
  /\ "ams" \in DOMAIN m_patch.d
  /\ DOMAIN m_patch.d["ams"].d = {"tray_now"}
  /\ m_merged # None
  /\ m_merged[1].ams = Some(AmsSummary(AmsList(FullReport), Some(2)))
(***************************************************************************)
(* Claims about the connection's subscriptions and its consume task        *)
(***************************************************************************)
\* the subscribe() scopes that are open
OpenScopes == {s \in Subs : subPc[s] = "subscribed"}

\* C33: the registered queues are exactly the queues of the open subscribe()
\* scopes, each once; entering a scope appends its new queue, leaving it
\* removes that queue and no other, and neither touches the pending reports
\* of another subscription.
C33_QueuesAreOpenScopes ==
  /\ [](/\ Range(queues) = OpenScopes
        /\ Len(queues) = Cardinality(OpenScopes))
  /\ [][\A s \in Subs :
          /\ (subPc[s] = "idle" /\ subPc'[s] = "subscribed")
               => /\ queues' = Append(queues, s)
                  /\ \A u \in Subs \ {s} : pending'[u] = pending[u]
          /\ (subPc[s] = "subscribed" /\ subPc'[s] # "subscribed")
               => /\ queues' = SelectSeq(queues, LAMBDA u : u # s)
                  /\ \A u \in Subs \ {s} : pending'[u] = pending[u]]_vars

\* one scope was left while the other stays registered with reports pending
C33_Witness ==
  \E s, u \in Subs :
    /\ subPc[s] = "closed"
    /\ subPc[u] = "subscribed"
    /\ queues = <<u>>
    /\ regAt[u] < regAt[s]
    /\ Len(pending[u]) >= 2
    /\ scope = "entered"
\* C34: a connection object creates at most one consume task: __aenter__ on
\* a connection that has a consume task raises RuntimeError and creates no
\* task, and __aexit__ on a connection that has none raises RuntimeError;
\* neither call changes anything else of the connection.
C34_OneConsumeTask ==
  /\ [](created_tasks = IF consume_task = "none" THEN 0 ELSE 1)
  /\ [][/\ created_tasks' # created_tasks
             => consume_task = "none" /\ scope = "new"
        /\ runtime_errors' # runtime_errors
             => /\ runtime_errors' \ runtime_errors =
                     IF consume_task # "none"
                     THEN {"MQTT subscription already initialized"}
                     ELSE {"MQTT subscription not initialized or already closed"}
                /\ UNCHANGED <<connVars, created_tasks>>]_vars

\* __aexit__ was called before __aenter__, and __aenter__ again while the
\* consume task was running: both raised, one task exists
C34_Witness ==
  /\ runtime_errors = {"MQTT subscription already initialized",
                       "MQTT subscription not initialized or already closed"}
  /\ scope = "entered"
  /\ consume_task = "receiving"
  /\ created_tasks = 1
(***************************************************************************)
(* Claims about the setup of a discovered device                           *)
(***************************************************************************)
\* the step takes a device from the discovered-device queue
Dequeued == device_queue # <<>> /\ device_queue' = Tail(device_queue)

\* C35: taking a discovered device either sets it up (its consume task, its
\* logger and its job tracker all start) or fails, and a failure starts no
\* task for the device, touches no task of another device, and leaves the
\* loop waiting for the next discovered device.
C35_SetupFailureIsolated ==
  [][Dequeued =>
       LET d == Head(device_queue)
       IN /\ \/ tasks' = tasks
             \/ tasks' = [tasks EXCEPT ![d] = [r \in Roles |-> "running"]]
          /\ inner = "waiting" /\ inner' = "waiting"
          /\ tg' = tg
          /\ found_ids' = found_ids]_vars

\* the setup of printerA failed, and printerB, discovered after it, was set
\* up and runs
C35_Witness ==
  /\ found_ids = Devices
  /\ device_queue = <<>>
  /\ \A r \in Roles : tasks["printerA"][r] = "none"
  /\ \A r \in Roles : tasks["printerB"][r] = "running"
  /\ inner = "waiting"
  /\ tg = "active"
(***************************************************************************)
(* Claims about the job after a report has been handled                    *)
(***************************************************************************)
\* the last report taken has been handled and the loop waits for the next
ReportProcessed == jobPc = "waiting" /\ job_report # None

\* the tracked job agrees with gcode_state gs
ConsistentWith(job, gs) ==
  /\ gs = Some("RUNNING") => job # None /\ job[1].state = "running"
  /\ gs = Some("PAUSE") => job = None \/ job[1].state = "paused"
  /\ gs \in {Some("FINISH"), Some("FAILED"), Some("IDLE")} => job = None

\* C36: once a report has been handled without stopping the tracking, the
\* tracked job agrees with the report's gcode_state: a running job after
\* RUNNING, no job or a paused one after PAUSE, no job after FINISH, FAILED or
\* IDLE.
C36_JobConsistentWithReport ==
  ReportProcessed =>
    ConsistentWith(state.current_job, job_report[1].gcode_state)

\* three reports were handled, the last one FAILED with a job tracked: the
\* failure was announced and no job is left
C36_Witness ==
  /\ ReportProcessed
  /\ nReports = 3
  /\ job_report[1].gcode_state = Some("FAILED")
  /\ calls # <<>>
  /\ state.current_job = None
(***************************************************************************)
(* Claims about a RUNNING report without a remaining time                  *)
(***************************************************************************)
\* the step takes a RUNNING report without mc_remaining_time while no job is
\* tracked or the tracked job is paused
TakesRunningWithoutTime ==
  /\ jobPc = "waiting"
  /\ nReports' = nReports + 1
  /\ job_report'[1].gcode_state = Some("RUNNING")
  /\ job_report'[1].mc_remaining_time = None
  /\ (state.current_job = None \/ Paused(state.current_job))

\* C37: a RUNNING report without a remaining time, taken while no job is
\* tracked or the job is paused, fails the assert of _job_started or
\* _job_resumed: the state is left as it was (no job, or the paused job with
\* its empty ETA), no Slack call is made, the task goes to its finally block
\* with the unchanged state serialized, and from then on it takes no report
\* and makes no call; it ends by writing that state, unless the write itself
\* fails, and returns.
C37_AssertStopsTracking ==
  /\ [][TakesRunningWithoutTime =>
          /\ state' = state
          /\ Paused(state.current_job) => state'.current_job[1].eta = None
          /\ calls' = <<>>
          /\ jobRaised' = Some("AssertionError")
          /\ jobPc' = "saving"
          /\ job_serialized' = Some(UnstructureState(state))]_vars
  /\ [][jobRaised = Some("AssertionError") =>
          /\ state' = state
          /\ nReports' = nReports
          /\ job_report' = job_report
          /\ calls' = <<>>
          /\ jobPc' # jobPc =>
               /\ jobPc = "saving" /\ jobPc' = "returned"
               /\ \/ /\ state_file' = Some(UnstructureState(state))
                     /\ state_writes' = state_writes + 1
                  \/ jobRaised' = Some("OSError")]_vars

\* a job was started and paused, and a RUNNING report without a remaining
\* time came third: the paused job was saved and the task returned
C37_Witness ==
  /\ jobPc = "returned"
  /\ jobRaised = Some("AssertionError")
  /\ nReports = 3
  /\ job_report[1].gcode_state = Some("RUNNING")
  /\ job_report[1].mc_remaining_time = None
  /\ Paused(state.current_job)
  /\ state.current_job[1].eta = None
  /\ state.current_job[1].slack_thread_ts = Some("ts1")
  /\ calls = <<>>
  /\ state_file = Some(UnstructureState(state))
(***************************************************************************)
(* Claims about the consume task after the connection is left              *)
(***************************************************************************)
\* __aexit__ has been called
ScopeLeft == scope \in {"exiting", "exited"}

\* the consume task has ended
ConsumeEnded == consume_task \in {"cancelled", "failed"}

\* C38: from the moment the connection scope is left the consume task is
\* cancelled, wherever it was (not yet started, connecting, subscribing,
\* receiving, sleeping in the backoff): it builds no client, changes neither
\* the cache nor what was published, puts nothing on any subscriber's queue
\* (a queue only shrinks, by its consumer), and it eventually ends.
C38_CancelledConsumeStops ==
  /\ [](ScopeLeft => consume_task \in {"cancelling", "cancelled", "failed"})
  /\ [][ScopeLeft =>
          /\ nClients' = nClients
          /\ nSleeps' = nSleeps
          /\ nMsgs' = nMsgs
          /\ cache' = cache
          /\ published' = published
          /\ delivered' = delivered
          /\ \A s \in Subs :
               pending'[s] = pending[s]
                 \/ (pending[s] # <<>> /\ pending'[s] = Tail(pending[s]))
          /\ consume_task' \in {consume_task, "cancelled"}]_vars
  /\ (ScopeLeft ~> ConsumeEnded)

\* the scope was left while a subscriber was registered and a report had been
\* published; the consume task ended by the cancellation, after a backoff
C38_Witness ==
  /\ scope = "exited"
  /\ consume_task = "cancelled"
  /\ raised = Some("CancelledError")
  /\ nSleeps >= 1
  /\ queues # <<>>
  /\ published # <<>>
(***************************************************************************)
(* Claims about the cache and the subscriptions across a reconnect         *)
(***************************************************************************)
\* a step of the outage: a caught MqttError, the end of the backoff sleep,
\* the connection made, the topic subscribed
OutageStep ==
  /\ consume_task' # consume_task
  /\ {consume_task, consume_task'}
       \subseteq {"connecting", "subscribing", "receiving", "backoff"}

\* C39: a caught MqttError, the backoff and the reconnect change neither the
\* cache nor the registered queues nor what is pending in them; a patch
\* received after a reconnect is merged onto the report cached before the
\* outage, and every queue registered then gets the merged report.
C39_ReconnectKeepsCacheAndQueues ==
  /\ [][OutageStep =>
          /\ cache' = cache
          /\ queues' = queues
          /\ pending' = pending
          /\ subPc' = subPc
          /\ published' = published]_vars
  /\ [][(nSleeps >= 1 /\ patches' # patches) =>
          LET merged == ParsePayload(cache.print, patches'[Len(patches')])
          IN /\ merged # None
             /\ cache'.print = merged
             /\ \A s \in Subs :
                  pending'[s] =
                    IF s \in Range(queues)
                    THEN Append(pending[s], [id |-> Len(published'),
                                             print |-> merged[1]])
                    ELSE pending[s]]_vars

\* after an outage and a reconnect the loop receives again; a subscriber
\* registered before the first publication got both publications without
\* subscribing again, and the cache holds the merge of both patches
C39_Witness ==
  /\ consume_task = "receiving"
  /\ raised = Some("MqttError")
  /\ nSleeps = 1
  /\ nClients = 2
  /\ Len(patches) = 2
  /\ cache.print = FoldPatches(loaded.print, patches, 1)
  /\ cache.print # loaded.print
  /\ \E s \in Subs :
       /\ subPc[s] = "subscribed"
       /\ regAt[s] = 0
       /\ delivered[s] = <<1, 2>>
(***************************************************************************)
(* Claims about a message without the key "print"                          *)
(***************************************************************************)
\* the item the step appends to the queue of subscriber s
Pushed(s) == pending'[s][Len(pending'[s])]

\* C40 as stated: a message without the key "print" is not dropped; it leaves
\* the cached report equal to the previous one, changes last_update only, and
\* pushes a report equal to the previous one to every registered subscriber.
C40_KeylessKeepsSnapshot ==
  [][\A p \in KeylessPayloads :
       Receive(p) =>
         /\ patches' = Append(patches, p)
         /\ cache'.print = cache.print
         /\ cache'.last_update # cache.last_update
         /\ cache'.last_full_update = cache.last_full_update
         /\ \A s \in Subs :
              IF s \in Range(queues)
              THEN /\ Len(pending'[s]) = Len(pending[s]) + 1
                   /\ Some(Pushed(s).print) = cache.print
              ELSE pending'[s] = pending[s]]_vars

\* the report a merge onto the cached one starts from
PreviousOrDefault == IF cache.print = None THEN EmptyReport ELSE cache.print[1]

\* C40: a message without the key "print" is not dropped. With a report
\* cached it leaves that report as it is; with no report cached yet the cache
\* takes the report of defaults. In both cases only print and last_update
\* of the cache are assigned, and that report is pushed to every registered
\* subscriber and to no other.
C40_KeylessKeepsOrDefaults ==
  [][\A p \in KeylessPayloads :
       Receive(p) =>
         /\ patches' = Append(patches, p)
         /\ cache'.print = Some(PreviousOrDefault)
         /\ cache'.last_update = Some(clock') /\ clock' = clock + 1
         /\ cache'.last_full_update = cache.last_full_update
         /\ published' = Append(published, PreviousOrDefault)
         /\ \A s \in Subs :
              pending'[s] =
                IF s \in Range(queues)
                THEN Append(pending[s], [id |-> Len(published'),
                                         print |-> PreviousOrDefault])
                ELSE pending[s]]_vars

\* two messages without the key arrived with a report cached from an earlier
\* session: a registered subscriber holds two equal reports, both equal to
\* the loaded one
C40_Witness ==
  /\ Len(patches) = 2
  /\ \A i \in DOMAIN patches : patches[i] \in KeylessPayloads
  /\ loaded.print # None
  /\ cache.print = loaded.print
  /\ cache.last_update = Some(clock)
  /\ \E s \in Subs :
       /\ Len(pending[s]) = 2
       /\ pending[s][1].print = loaded.print[1]
       /\ pending[s][2].print = loaded.print[1]

====
